---- MODULE Spec2Model ----
(***************************************************************************)
(* Model of the BOUT transcription pipeline: the staged orchestrator       *)
(* (process / resume), the batch transcription driver with its per-chunk   *)
(* checkpoint and progress callbacks, the chunk planner, the chunk merger  *)
(* and the JSON job-state store.                                           *)
(*                                                                         *)
(* Times are integers (seconds).  A text is a sequence of words, so that   *)
(* " ".join(...) followed by " ".join(s.split()) is concatenation.  An     *)
(* Optional value is a sequence of length at most one (None == << >>).     *)
(***************************************************************************)
EXTENDS Integers, Sequences, FiniteSets, TLC

\* ------------------------------------------------------------------ bounds
MaxDurationSteps == 5      \* durations are 0, DurationStep, ..., MaxDurationSteps * DurationStep
DurationStep == 125
MaxResumes == 1            \* resume() calls after the process() run
MaxWriteFaults == 1        \* checkpoint writes that fail in one behaviour
MaxModelFaults == 3        \* OOM / model errors in one behaviour
MaxPlanDuration == 12      \* planner calls: durations 0..MaxPlanDuration
MaxPlanCd == 4             \* planner calls: chunk_duration in 1..MaxPlanCd
MaxPlanMc == 5             \* planner calls: min_chunk in 1..MaxPlanMc
MaxMergeDuration == 6      \* merger calls: durations 1..MaxMergeDuration
MaxMergeSegs == 2          \* merger calls: segments in all chunks together
MaxScenarioSteps == 90     \* end-to-end calls: durations 0, ScenarioStep, ..., MaxScenarioSteps * ScenarioStep
ScenarioStep == 10
MaxTranscribeLen == 2      \* worker calls: chunk_duration, and model times 0..MaxTranscribeLen
MaxFileAge == 2            \* cleanup calls: file ages and max_age_seconds 0..MaxFileAge
MaxRetriesArg == 3         \* retry-loop calls: max_retries 0..MaxRetriesArg
MaxWorkerChunks == 2       \* worker lifetimes: batches of 1..MaxWorkerChunks chunks
MaxTrackerCalls == 3       \* tracker calls: sequences of up to MaxTrackerCalls calls
MaxConsolidateSegs == 3    \* consolidation calls: up to MaxConsolidateSegs labelled segments
MaxStems == 2              \* job runs: video file stems 1..MaxStems
MaxJobs == 2               \* job runs: jobs 1..MaxJobs
MaxJobChunks == 2          \* job runs: 1..MaxJobChunks chunks per job
MaxKills == 2              \* job runs: killed runs in one behaviour
MaxProgressChunks == 3     \* progress of a run: jobs of 1..MaxProgressChunks chunks
MaxLoopDurationSteps == 6  \* planner loop: durations 0, LoopDurationStep, ..., MaxLoopDurationSteps * LoopDurationStep
LoopDurationStep == 10

\* ------------------------------------------------- configuration constants
ChunkDuration == 300
OverlapSeconds == 10
MinChunkSeconds == 30
MaxRetries == 3

None == << >>
Some(x) == << x >>
NoPath == "None"

\* Faulty variant: the larger of the two.
Min_Larger(a, b) == IF a < b THEN b ELSE a

Min(a, b) == IF a < b THEN a ELSE b

Durations == { k * DurationStep : k \in 0..MaxDurationSteps }

\* ---------------------------------------------------------------- planner
NewChunk(index, start, end, ov) ==
    [ index |-> index, start_time |-> start, end_time |-> end,
      overlap_start |-> ov, file_path |-> NoPath, status |-> "pending",
      text |-> None, segments |-> << >>, error |-> "None" ]

RECURSIVE PlanLoop(_, _, _, _, _, _, _)
PlanLoop(duration, cd, ov, mc, start, index, chunks) ==
    IF ~(start < duration) THEN chunks
    ELSE LET end == Min(start + cd, duration)
             remaining == duration - start
         IN  IF remaining < mc /\ index > 0
             THEN [chunks EXCEPT ![Len(chunks)].end_time = duration]
             ELSE PlanLoop(duration, cd, ov, mc, start + (cd - ov), index + 1,
                           Append(chunks,
                                  NewChunk(index, start, end,
                                           IF index > 0 THEN ov ELSE 0)))

\* Faulty variant: the planner without the absorption of a short remainder.
calculate_chunks_NoAbsorb(duration, cd, ov, mc) ==
    IF duration <= 0 THEN << >>
    ELSE IF duration <= cd THEN << NewChunk(0, 0, duration, 0) >>
    ELSE PlanLoop(duration, cd, ov, 0, 0, 0, << >>)

calculate_chunks(duration, cd, ov, mc) ==
    IF duration <= 0 THEN << >>
    ELSE IF duration <= cd THEN << NewChunk(0, 0, duration, 0) >>
    ELSE PlanLoop(duration, cd, ov, mc, 0, 0, << >>)

\* split_audio: every chunk gets its own file under the chunks directory.
split_audio(chunks) ==
    [ i \in 1..Len(chunks) |-> [chunks[i] EXCEPT !.file_path = "chunk_file"] ]

\* ----------------------------------------------------------------- merger
RECURSIVE Flatten(_)
Flatten(ss) == IF ss = << >> THEN << >> ELSE Head(ss) \o Flatten(Tail(ss))

\* midpoint = (start + end) / 2, compared without division
KeepFirst(seg, cutoff) ==
    \/ seg.end <= cutoff
    \/ seg.start < cutoff /\ seg.start + seg.end < 2 * cutoff

KeepLast(seg, skip_until) ==
    \/ seg.start >= skip_until
    \/ seg.end > skip_until /\ seg.start + seg.end >= 2 * skip_until

\* Faulty variant: a middle chunk keeps only what lies wholly inside.
KeepMiddle_Inside(seg, skip_until, cutoff) ==
    seg.start >= skip_until /\ seg.end <= cutoff

KeepMiddle(seg, skip_until, cutoff) ==
    \/ seg.start >= skip_until /\ seg.end <= cutoff
    \/ seg.start + seg.end >= 2 * skip_until /\ seg.start + seg.end <= 2 * cutoff

filter_segments_first_chunk(chunk, overlap) ==
    LET cutoff == chunk.end_time - overlap
        K(seg) == KeepFirst(seg, cutoff)
    IN  SelectSeq(chunk.segments, K)

\* Faulty variant: the last chunk drops every segment that crosses skip_until.
filter_segments_last_chunk_StartOnly(chunk) ==
    LET skip_until == chunk.start_time + chunk.overlap_start
        K(seg) == seg.start >= skip_until
    IN  SelectSeq(chunk.segments, K)

filter_segments_last_chunk(chunk) ==
    LET skip_until == chunk.start_time + chunk.overlap_start
        K(seg) == KeepLast(seg, skip_until)
    IN  SelectSeq(chunk.segments, K)

filter_segments_middle_chunk(chunk, overlap) ==
    LET skip_until == chunk.start_time + chunk.overlap_start
        cutoff == chunk.end_time - overlap
        K(seg) == KeepMiddle(seg, skip_until, cutoff)
    IN  SelectSeq(chunk.segments, K)

\* list.sort(key=start) is stable: insertion after the last element whose
\* start is not greater.
RECURSIVE InsertByStart(_, _)
InsertByStart(sorted, seg) ==
    IF sorted = << >> THEN << seg >>
    ELSE IF Head(sorted).start <= seg.start
         THEN << Head(sorted) >> \o InsertByStart(Tail(sorted), seg)
         ELSE << seg >> \o sorted

RECURSIVE SortByStart(_)
SortByStart(segs) ==
    IF segs = << >> THEN << >>
    ELSE InsertByStart(SortByStart(SubSeq(segs, 1, Len(segs) - 1)), segs[Len(segs)])

\* sorted(chunks, key=index), stable
RECURSIVE InsertByIndex(_, _)
InsertByIndex(sorted, c) ==
    IF sorted = << >> THEN << c >>
    ELSE IF Head(sorted).index <= c.index
         THEN << Head(sorted) >> \o InsertByIndex(Tail(sorted), c)
         ELSE << c >> \o sorted

RECURSIVE SortByIndex(_)
SortByIndex(cs) ==
    IF cs = << >> THEN << >>
    ELSE InsertByIndex(SortByIndex(SubSeq(cs, 1, Len(cs) - 1)), cs[Len(cs)])

SegTexts(segs) == Flatten([ i \in 1..Len(segs) |-> segs[i].text ])

\* Faulty variant: no single-chunk shortcut, a lone chunk is filtered as a
\* first chunk and its segments sorted.
merge_chunks_NoShortcut(chunks, overlap) ==
    LET HasText(c) == c.text # None
        completed == SelectSeq(SortByIndex(chunks), HasText)
        n == Len(completed)
        kept(i) == IF i = 1 THEN filter_segments_first_chunk(completed[i], overlap)
                   ELSE IF i = n THEN filter_segments_last_chunk(completed[i])
                   ELSE filter_segments_middle_chunk(completed[i], overlap)
    IN  IF chunks = << >> \/ n = 0 THEN [ text |-> << >>, segments |-> << >> ]
        ELSE [ text |-> Flatten([ i \in 1..n |-> SegTexts(kept(i)) ]),
               segments |-> SortByStart(Flatten([ i \in 1..n |-> kept(i) ])) ]

\* merge_chunks returns (full_text, all_segments); full_text is Optional only
\* through the stored chunk text, so the result text is a plain text here.
merge_chunks(chunks, overlap) ==
    LET HasText(c) == c.text # None
        completed == SelectSeq(SortByIndex(chunks), HasText)
        n == Len(completed)
        kept(i) == IF i = 1 THEN filter_segments_first_chunk(completed[i], overlap)
                   ELSE IF i = n THEN filter_segments_last_chunk(completed[i])
                   ELSE filter_segments_middle_chunk(completed[i], overlap)
    IN  IF chunks = << >> \/ n = 0 THEN [ text |-> << >>, segments |-> << >> ]
        ELSE IF n = 1 THEN [ text |-> completed[1].text[1],
                             segments |-> completed[1].segments ]
        ELSE [ text |-> Flatten([ i \in 1..n |-> SegTexts(kept(i)) ]),
               segments |-> SortByStart(Flatten([ i \in 1..n |-> kept(i) ])) ]

\* ------------------------------------------------------- speech model stub
\* The recogniser is an external collaborator.  For a chunk file spanning
\* [a, b] it returns one segment (0, b - a) carrying the word T_k.
Words == << "T_0", "T_1", "T_2", "T_3", "T_4", "T_5", "T_6", "T_7" >>

ModelResult(chunk) ==
    [ text |-> << Words[chunk.index + 1] >>,
      segments |-> << [ start |-> 0, end |-> chunk.end_time - chunk.start_time,
                        text |-> << Words[chunk.index + 1] >> ] >> ]

\* str.strip(): a text is a sequence of tokens, Sp is a whitespace token;
\* leading and trailing whitespace goes, inner whitespace stays.
Sp == " "

RECURSIVE LStrip(_)
LStrip(text) ==
    IF text # << >> /\ Head(text) = Sp THEN LStrip(Tail(text)) ELSE text

RECURSIVE RStrip(_)
RStrip(text) ==
    IF text # << >> /\ text[Len(text)] = Sp
    THEN RStrip(SubSeq(text, 1, Len(text) - 1)) ELSE text

Strip(text) == RStrip(LStrip(text))

\* Rebase the model's segments to original-audio time and complete the chunk
\* (the body shared by transcribe_chunk and _transcribe_on_cpu).
CompleteChunk(chunk, result) ==
    [ chunk EXCEPT
        !.text = Some(Strip(result.text)),
        !.segments = [ i \in 1..Len(result.segments) |->
                         [ start |-> chunk.start_time + result.segments[i].start,
                           end |-> chunk.start_time + result.segments[i].end,
                           text |-> Strip(result.segments[i].text),
                           speaker |-> "None" ] ],
        !.status = "completed" ]

\* ---------------------------------------------------------- serialization
ChunkToDict(c) ==
    [ index |-> c.index, start_time |-> c.start_time, end_time |-> c.end_time,
      overlap_start |-> c.overlap_start, file_path |-> c.file_path,
      status |-> c.status, text |-> c.text, segments |-> c.segments,
      error |-> c.error ]

ChunkFromDict(d) ==
    [ index |-> d.index, start_time |-> d.start_time, end_time |-> d.end_time,
      overlap_start |-> d.overlap_start, file_path |-> d.file_path,
      status |-> d.status, text |-> d.text, segments |-> d.segments,
      error |-> d.error ]

\* JobState.from_job: job.segments is not part of the record; chunks_dir is
\* the argument of save_job, None when the caller passes none.
from_job(j, chunks_dir) ==
    [ status |-> j.status, error |-> j.error, audio_path |-> j.audio_path,
      chunks_dir |-> chunks_dir,
      chunks |-> [ i \in 1..Len(j.chunks) |-> ChunkToDict(j.chunks[i]) ],
      output_path |-> j.output_path,
      transcription_text |-> j.transcription_text ]

\* JobState.to_job: segments starts empty again.
to_job(st) ==
    [ status |-> st.status, error |-> st.error, audio_path |-> st.audio_path,
      chunks |-> [ i \in 1..Len(st.chunks) |-> ChunkFromDict(st.chunks[i]) ],
      output_path |-> st.output_path,
      transcription_text |-> st.transcription_text,
      segments |-> << >> ]

NewJob ==
    [ status |-> "pending", error |-> "None", audio_path |-> NoPath,
      chunks |-> << >>, output_path |-> NoPath,
      transcription_text |-> None, segments |-> << >> ]

NoState == from_job(NewJob, NoPath)
NoFile == [ kind |-> "absent", state |-> NoState ]
TornFile == [ kind |-> "torn", state |-> NoState ]

\* --------------------------------------------------------------- variables
VARIABLES
    duration,      \* duration of the video, from ffprobe
    device,        \* device the transcription engine resolves to
    useDiar,       \* Orchestrator.use_diarization of the process() run
    mode,          \* "none" | "process" | "resume": the current or last run
    pc,            \* position of the orchestrator
    job,           \* the live Job of the run
    chunksDir,     \* the run's chunks_dir local
    disk,          \* jobs/<id>.json
    model,         \* TranscriptionEngine.model: "none" | "loaded"
    ci,            \* position of transcribe_all_chunks in the chunk list
    attempt,       \* attempt number inside transcribe_chunk
    ret,           \* how the last run ended
    audioFile,     \* the temp audio file exists
    chunkFiles,    \* the chunks directory and its files exist
    log,           \* history: engine events of the current run
    stages,        \* history: stages whose work started in the current run
    completions,   \* history: times the model completed each chunk position
    cut,           \* history: how the process() run was cut short, if it was
    resumeFrom,    \* history: the status resume() found in the loaded job
    lastExc,       \* history: the exception that ended the current or last run
    resumes, writeFaults, modelFaults,
    args,          \* function-level specifications: the arguments of the call
    result,        \* function-level specifications: what the call returned
    called         \* function-level specifications: the call has been made

pipeline == << duration, device, useDiar, mode, pc, job, chunksDir, disk, model,
               ci, attempt, ret, audioFile, chunkFiles, log, stages, completions,
               cut, resumeFrom, lastExc, resumes, writeFaults, modelFaults >>

call == << args, result, called >>

vars == << pipeline, call >>

params == << duration, device, useDiar >>
engine == << model, ci, attempt >>
files == << audioFile, chunkFiles >>
hist == << resumeFrom, cut >>

NoCut == [ kind |-> "none", stage |-> "None", persisted |-> { } ]

\* positions of the chunks that are COMPLETED in the persisted record
DiskCompleted ==
    IF disk.kind = "ok"
    THEN { i \in 1..Len(disk.state.chunks) : disk.state.chunks[i].status = "completed" }
    ELSE { }

\* no function-level call is in progress
NoCall == args = << >> /\ result = << >> /\ called = FALSE

\* the orchestrator before process() is called
PipelineStart ==
    /\ mode = "none"
    /\ pc = "idle"
    /\ job = NewJob
    /\ chunksDir = NoPath
    /\ disk = NoFile
    /\ model = "none"
    /\ ci = 1
    /\ attempt = 0
    /\ ret = "None"
    /\ audioFile = FALSE
    /\ chunkFiles = FALSE
    /\ log = << >>
    /\ stages = << >>
    /\ completions = [ i \in 1..8 |-> 0 ]
    /\ cut = NoCut
    /\ resumeFrom = "None"
    /\ lastExc = "None"
    /\ resumes = 0
    /\ writeFaults = 0
    /\ modelFaults = 0

Init ==
    /\ duration \in Durations
    /\ device \in { "cuda", "cpu" }
    /\ useDiar \in BOOLEAN
    /\ PipelineStart
    /\ NoCall

\* ------------------------------------------------------------ save_job
\* open(job_file, "w") truncates and json.dump writes; an exception from
\* either is logged and swallowed.  "fail": open raised, the file is as it
\* was; "torn": the dump raised after the truncation.
WriteOutcomes ==
    IF writeFaults < MaxWriteFaults THEN { "ok", "fail", "torn" } ELSE { "ok" }

Written(j, chunks_dir, w) ==
    IF w = "ok" THEN [ kind |-> "ok", state |-> from_job(j, chunks_dir) ]
    ELSE IF w = "torn" THEN TornFile
    ELSE disk

save_job(j, chunks_dir) ==
    \E w \in WriteOutcomes :
        /\ disk' = Written(j, chunks_dir, w)
        /\ writeFaults' = writeFaults + (IF w = "ok" THEN 0 ELSE 1)

\* save_chunk_result: load the record from disk, replace the chunk with the
\* same index, save_job(loaded job) with no chunks_dir.
ReplaceChunk(chunks, chunk) ==
    LET hits == { i \in 1..Len(chunks) : chunks[i].index = chunk.index }
        first == CHOOSE i \in hits : \A k \in hits : i <= k
    IN  IF hits = { } THEN chunks ELSE [ chunks EXCEPT ![first] = chunk ]

save_chunk_result(chunk) ==
    IF disk.kind # "ok"
    THEN UNCHANGED << disk, writeFaults >>
    ELSE LET loaded == to_job(disk.state)
         IN  save_job([ loaded EXCEPT !.chunks = ReplaceChunk(loaded.chunks, chunk) ],
                      NoPath)

\* ------------------------------------------------- exception handlers
\* process(): KeyboardInterrupt -> CANCELLED, save, return None;
\*            BoutError -> FAILED, error, save, re-raise;
\*            Exception -> FAILED, error, save, raise BoutError("Pipeline failed").
\* resume():  except Exception -> FAILED, error, save, re-raise as it is;
\*            KeyboardInterrupt is not an Exception and leaves resume() unhandled.
\* Faulty variant: the interrupt handled like any other failure.
process_handler_InterruptFails(exc, j) ==
    LET j2 == [ j EXCEPT !.status = "failed", !.error = exc ]
    IN  /\ job' = j2
        /\ save_job(j2, NoPath)
        /\ ret' = "returned None"

process_handler(exc, j) ==
    LET j2 == IF exc = "KeyboardInterrupt"
              THEN [ j EXCEPT !.status = "cancelled" ]
              ELSE [ j EXCEPT !.status = "failed", !.error = exc ]
    IN  /\ job' = j2
        /\ save_job(j2, NoPath)
        /\ ret' = IF exc = "KeyboardInterrupt" THEN "returned None"
                  ELSE IF exc = "BoutError" THEN "raised BoutError"
                  ELSE "raised BoutError(Pipeline failed)"

resume_handler(exc, j) ==
    IF exc = "KeyboardInterrupt"
    THEN /\ job' = j
         /\ ret' = "raised KeyboardInterrupt"
         /\ UNCHANGED << disk, writeFaults >>
    ELSE LET j2 == [ j EXCEPT !.status = "failed", !.error = exc ]
         IN  /\ job' = j2
             /\ save_job(j2, NoPath)
             /\ ret' = IF exc = "BoutError" THEN "raised BoutError"
                       ELSE "raised Exception"

\* An exception exc leaves the stage at the current position with live job j.
Raise(exc, j) ==
    /\ pc' = "idle"
    /\ lastExc' = exc
    /\ IF mode = "process" THEN process_handler(exc, j) ELSE resume_handler(exc, j)

Running == pc # "idle"

NoteCut(kind) ==
    cut' = IF mode = "process" /\ cut.kind = "none"
           THEN [ kind |-> kind, stage |-> job.status, persisted |-> DiskCompleted ]
           ELSE cut

\* The user's interrupt signal, delivered while a run is executing.
Interrupt ==
    /\ Running
    /\ Raise("KeyboardInterrupt", job)
    /\ NoteCut("interrupt")
    /\ UNCHANGED << call, params, mode, chunksDir, engine, files, log, stages,
                    completions, resumeFrom, resumes, modelFaults >>

\* The process dies (kill, power loss): the live job is gone, the files stay.
Crash ==
    /\ Running
    /\ pc' = "idle"
    /\ ret' = "crashed"
    /\ lastExc' = "None"
    /\ NoteCut("crash")
    /\ UNCHANGED << call, params, mode, job, chunksDir, disk, engine, files, log,
                    stages, completions, resumeFrom, resumes, writeFaults, modelFaults >>

\* --------------------------------------------------------------- process()
Process ==
    /\ pc = "idle" /\ mode = "none"
    /\ mode' = "process"
    /\ pc' = "p_extract"
    /\ job' = NewJob
    /\ chunksDir' = "chunks_dir"
    /\ UNCHANGED << call, params, disk, engine, ret, files, log, stages, completions, hist, lastExc, resumes, writeFaults, modelFaults >>

\* A stage boundary of _execute_pipeline: job.status = s; save_job(job[, chunks_dir]).
Boundary(s, cdir, next) ==
    /\ job' = [ job EXCEPT !.status = s ]
    /\ save_job(job', cdir)
    /\ pc' = next
    /\ UNCHANGED << call, params, mode, chunksDir, engine, ret, files, log, stages,
                    completions, hist, lastExc, resumes, modelFaults >>

P_ExtractBegin == pc = "p_extract" /\ Boundary("extracting", NoPath, "p_extract_work")

P_ExtractWork ==
    /\ pc = "p_extract_work"
    /\ stages' = Append(stages, "extract")
    /\ \/ /\ job' = [ job EXCEPT !.audio_path = "audio_file" ]
          /\ audioFile' = TRUE
          /\ pc' = "p_chunk"
          /\ UNCHANGED << disk, ret, writeFaults, lastExc >>
       \/ /\ \E exc \in { "BoutError", "Exception" } : Raise(exc, job)
          /\ UNCHANGED audioFile
    /\ UNCHANGED << call, params, mode, chunksDir, engine, chunkFiles, log,
                    completions, hist, resumes, modelFaults >>

P_ChunkBegin == pc = "p_chunk" /\ Boundary("chunking", NoPath, "p_chunk_work")

\* calculate_chunks, split_audio or reuse of the audio file, job.chunks = chunks,
\* save_job(job, chunks_dir).  chunks[0] of an empty plan raises IndexError.
P_ChunkWork ==
    /\ pc = "p_chunk_work"
    /\ stages' = Append(stages, "chunk")
    /\ LET plan == calculate_chunks(duration, ChunkDuration, OverlapSeconds, MinChunkSeconds)
       IN  IF Len(plan) = 0
           THEN /\ Raise("Exception", job)
                /\ UNCHANGED chunkFiles
           ELSE IF Len(plan) = 1
           THEN /\ job' = [ job EXCEPT !.chunks = << [ plan[1] EXCEPT !.file_path = job.audio_path ] >> ]
                /\ save_job(job', chunksDir)
                /\ pc' = "p_transcribe"
                /\ UNCHANGED << ret, chunkFiles, lastExc >>
           ELSE \/ /\ job' = [ job EXCEPT !.chunks = split_audio(plan) ]
                   /\ chunkFiles' = TRUE
                   /\ save_job(job', chunksDir)
                   /\ pc' = "p_transcribe"
                   /\ UNCHANGED << ret, lastExc >>
                \/ /\ Raise("BoutError", job)
                   /\ chunkFiles' = TRUE
    /\ UNCHANGED << call, params, mode, chunksDir, engine, audioFile, log,
                    completions, hist, resumes, modelFaults >>

P_TranscribeBegin ==
    /\ pc = "p_transcribe"
    /\ job' = [ job EXCEPT !.status = "transcribing" ]
    /\ save_job(job', chunksDir)
    /\ pc' = "t_load"
    /\ ci' = 1
    /\ UNCHANGED << call, params, mode, chunksDir, model, attempt, ret, files, log, stages,
                    completions, hist, lastExc, resumes, modelFaults >>

\* ------------------------------------------------ transcribe_all_chunks
Event(ev, n) == [ ev |-> ev, n |-> n ]

FileExists(path) ==
    CASE path = "audio_file" -> audioFile
      [] path = "chunk_file" -> chunkFiles
      [] OTHER -> FALSE

ModelFaultAllowed == modelFaults < MaxModelFaults

SetChunk(j, i, c) == [ j EXCEPT !.chunks[i] = c ]

AfterTranscribe == IF mode = "process" THEN "p_merge" ELSE "r_merge"

\* self.load_model() at the top of transcribe_all_chunks
T_Load ==
    /\ pc = "t_load"
    /\ stages' = Append(stages, "transcribe")
    /\ \/ /\ model' = "loaded"
          /\ pc' = "t_loop"
          /\ UNCHANGED << job, disk, ret, writeFaults, modelFaults, lastExc >>
       \/ /\ ModelFaultAllowed
          /\ modelFaults' = modelFaults + 1
          /\ Raise("BoutError", job)
          /\ UNCHANGED model
    /\ UNCHANGED << call, params, mode, chunksDir, ci, attempt, files, log,
                    completions, hist, resumes >>

\* the for loop is exhausted: return chunks
T_Return ==
    /\ pc = "t_loop" /\ ci > Len(job.chunks)
    /\ pc' = AfterTranscribe
    /\ UNCHANGED << call, params, mode, job, chunksDir, disk, engine, ret, files, log,
                    stages, completions, hist, lastExc, resumes, writeFaults, modelFaults >>

\* chunk.status == COMPLETED: count it, report progress, continue
T_Skip ==
    /\ pc = "t_loop" /\ ci <= Len(job.chunks)
    /\ job.chunks[ci].status = "completed"
    /\ log' = Append(log, Event("progress", ci))
    /\ ci' = ci + 1
    /\ UNCHANGED << call, params, mode, pc, job, chunksDir, disk, model, attempt, ret,
                    files, stages, completions, hist, lastExc, resumes, writeFaults,
                    modelFaults >>

\* Faulty variant: the batch driver without its "already COMPLETED" test.
T_Begin_NoSkip ==
    /\ pc = "t_loop" /\ ci <= Len(job.chunks)
    /\ FileExists(job.chunks[ci].file_path)
    /\ model' = "loaded"
    /\ attempt' = 0
    /\ log' = Append(log, Event("transcribe", ci))
    /\ pc' = "t_attempt"
    /\ UNCHANGED << call, params, mode, job, chunksDir, disk, ci, ret, files, stages,
                    completions, hist, lastExc, resumes, writeFaults, modelFaults >>

\* transcribe_chunk up to the retry loop: file check, lazy load_model
T_Begin ==
    /\ pc = "t_loop" /\ ci <= Len(job.chunks)
    /\ job.chunks[ci].status # "completed"
    /\ IF ~FileExists(job.chunks[ci].file_path)
       THEN /\ Raise("BoutError", job)
            /\ UNCHANGED << model, attempt, log, modelFaults >>
       ELSE \/ /\ model' = "loaded"
               /\ attempt' = 0
               /\ log' = Append(log, Event("transcribe", ci))
               /\ pc' = "t_attempt"
               /\ UNCHANGED << job, disk, ret, writeFaults, modelFaults, lastExc >>
            \/ /\ model = "none" /\ ModelFaultAllowed
               /\ modelFaults' = modelFaults + 1
               /\ Raise("BoutError", job)
               /\ UNCHANGED << model, attempt, log >>
    /\ UNCHANGED << call, params, mode, chunksDir, ci, files, stages, completions, hist, resumes >>

\* model.transcribe succeeded on this attempt
T_AttemptOk ==
    /\ pc = "t_attempt"
    /\ job' = SetChunk(job, ci, CompleteChunk(job.chunks[ci], ModelResult(job.chunks[ci])))
    /\ completions' = [ completions EXCEPT ![ci] = @ + 1 ]
    /\ pc' = "t_checkpoint"
    /\ UNCHANGED << call, params, mode, chunksDir, disk, engine, ret, files, log,
                    stages, hist, lastExc, resumes, writeFaults, modelFaults >>

\* _transcribe_on_cpu: unload, CPU model, transcribe, reload; any exception
\* marks the chunk FAILED and the chunk is returned all the same.
transcribe_on_cpu(ok) ==
    IF ok
    THEN /\ job' = SetChunk(job, ci, CompleteChunk(job.chunks[ci], ModelResult(job.chunks[ci])))
         /\ completions' = [ completions EXCEPT ![ci] = @ + 1 ]
         /\ model' = "loaded"
    ELSE /\ job' = SetChunk(job, ci, [ job.chunks[ci] EXCEPT !.status = "failed",
                                                              !.error = "Exception" ])
         /\ model' \in { "none", "loaded" }
         /\ UNCHANGED completions

\* Faulty variant: an OOM attempt that is retried leaves its error on the chunk.
T_AttemptOOM_MarksChunk ==
    /\ pc = "t_attempt" /\ ModelFaultAllowed
    /\ modelFaults' = modelFaults + 1
    /\ IF attempt # MaxRetries - 1
       THEN /\ attempt' = attempt + 1
            /\ job' = SetChunk(job, ci, [ job.chunks[ci] EXCEPT !.error = "out of memory" ])
            /\ UNCHANGED << pc, disk, model, ret, completions, writeFaults, lastExc >>
       ELSE IF device # "cpu"
       THEN /\ \E ok \in BOOLEAN : transcribe_on_cpu(ok)
            /\ pc' = "t_checkpoint"
            /\ UNCHANGED << attempt, disk, ret, writeFaults, lastExc >>
       ELSE /\ Raise("BoutError", job)
            /\ UNCHANGED << attempt, model, completions >>
    /\ UNCHANGED << call, params, mode, chunksDir, ci, files, log, stages, hist, resumes >>

\* RuntimeError "out of memory" on this attempt
T_AttemptOOM ==
    /\ pc = "t_attempt" /\ ModelFaultAllowed
    /\ modelFaults' = modelFaults + 1
    /\ IF attempt # MaxRetries - 1
       THEN /\ attempt' = attempt + 1
            /\ UNCHANGED << pc, job, disk, model, ret, completions, writeFaults, lastExc >>
       ELSE IF device # "cpu"
       THEN /\ \E ok \in BOOLEAN : transcribe_on_cpu(ok)
            /\ pc' = "t_checkpoint"
            /\ UNCHANGED << attempt, disk, ret, writeFaults, lastExc >>
       ELSE /\ Raise("BoutError", job)
            /\ UNCHANGED << attempt, model, completions >>
    /\ UNCHANGED << call, params, mode, chunksDir, ci, files, log, stages, hist, resumes >>

\* another RuntimeError (-> TranscriptionError) or any other exception
T_AttemptError ==
    /\ pc = "t_attempt" /\ ModelFaultAllowed
    /\ modelFaults' = modelFaults + 1
    /\ \E exc \in { "BoutError", "Exception" } : Raise(exc, job)
    /\ UNCHANGED << call, params, mode, chunksDir, engine, files, log, stages,
                    completions, hist, resumes >>

\* Faulty variant: the two callbacks in the wrong order, progress first.
T_Checkpoint_ProgressFirst ==
    /\ pc = "t_checkpoint"
    /\ log' = log \o << Event("progress", ci), Event("checkpoint", ci) >>
    /\ save_chunk_result(job.chunks[ci])
    /\ ci' = ci + 1
    /\ pc' = "t_loop"
    /\ UNCHANGED << call, params, mode, job, chunksDir, model, attempt, ret, files, stages,
                    completions, hist, lastExc, resumes, modelFaults >>

\* checkpoint_callback(chunk) -> save_chunk_result(job.id, chunk)
T_Checkpoint ==
    /\ pc = "t_checkpoint"
    /\ save_chunk_result(job.chunks[ci])
    /\ log' = Append(log, Event("checkpoint", ci))
    /\ pc' = "t_progress"
    /\ UNCHANGED << call, params, mode, job, chunksDir, engine, ret, files, stages,
                    completions, hist, lastExc, resumes, modelFaults >>

\* completed += 1; progress_callback(completed, total); next chunk
T_Progress ==
    /\ pc = "t_progress"
    /\ log' = Append(log, Event("progress", ci))
    /\ ci' = ci + 1
    /\ pc' = "t_loop"
    /\ UNCHANGED << call, params, mode, job, chunksDir, disk, model, attempt, ret,
                    files, stages, completions, hist, lastExc, resumes, writeFaults,
                    modelFaults >>

\* ------------------------------------------- process(): merge .. complete
P_MergeBegin == pc = "p_merge" /\ Boundary("merging", chunksDir, "p_merge_work")

P_MergeWork ==
    /\ pc = "p_merge_work"
    /\ stages' = Append(stages, "merge")
    /\ LET m == merge_chunks(job.chunks, OverlapSeconds)
       IN  job' = [ job EXCEPT !.transcription_text = Some(m.text),
                               !.segments = m.segments ]
    /\ pc' = IF useDiar THEN "p_diarize" ELSE "p_generate"
    /\ UNCHANGED << call, params, mode, chunksDir, disk, engine, ret, files, log,
                    completions, hist, lastExc, resumes, writeFaults, modelFaults >>

P_DiarizeBegin == pc = "p_diarize" /\ Boundary("diarizing", chunksDir, "p_diarize_work")

\* merge_with_transcription with a diarization that found one speaker
\* everywhere, then consolidate_segments (gap_threshold 1.0).
Label(segs) == [ i \in 1..Len(segs) |-> [ segs[i] EXCEPT !.speaker = "Hablante 1" ] ]

\* Faulty variant: same-speaker segments are merged whatever the gap.
RECURSIVE Consolidate_AnyGap(_, _, _)
Consolidate_AnyGap(done, current, rest) ==
    IF rest = << >> THEN Append(done, current)
    ELSE LET seg == Head(rest)
         IN  IF seg.speaker = current.speaker
             THEN Consolidate_AnyGap(done,
                              [ current EXCEPT !.end = seg.end,
                                               !.text = current.text \o seg.text ],
                              Tail(rest))
             ELSE Consolidate_AnyGap(Append(done, current), seg, Tail(rest))

RECURSIVE Consolidate(_, _, _)
Consolidate(done, current, rest) ==
    IF rest = << >> THEN Append(done, current)
    ELSE LET seg == Head(rest)
         IN  IF seg.speaker = current.speaker /\ seg.start - current.end <= 1
             THEN Consolidate(done,
                              [ current EXCEPT !.end = seg.end,
                                               !.text = current.text \o seg.text ],
                              Tail(rest))
             ELSE Consolidate(Append(done, current), seg, Tail(rest))

consolidate_segments(segs) ==
    IF segs = << >> THEN << >> ELSE Consolidate(<< >>, Head(segs), Tail(segs))

\* Faulty variant: the stage without its try ... except, a diarization
\* failure reaches the handler of the run.
P_DiarizeWork_Fatal ==
    /\ pc = "p_diarize_work"
    /\ stages' = Append(stages, "diarize")
    /\ \/ /\ \E outcome \in { "ok", "no token" } :
                job' = IF outcome = "ok"
                       THEN [ job EXCEPT !.segments = consolidate_segments(Label(job.segments)) ]
                       ELSE job
          /\ pc' = "p_generate"
          /\ UNCHANGED << disk, ret, writeFaults, lastExc >>
       \/ Raise("Exception", job)
    /\ UNCHANGED << call, params, mode, chunksDir, engine, files, log, completions,
                    hist, resumes, modelFaults >>

\* is_available / diarize / merge / consolidate inside try ... except Exception
P_DiarizeWork ==
    /\ pc = "p_diarize_work"
    /\ stages' = Append(stages, "diarize")
    /\ \E outcome \in { "ok", "no token", "failed" } :
          job' = IF outcome = "ok"
                 THEN [ job EXCEPT !.segments = consolidate_segments(Label(job.segments)) ]
                 ELSE job
    /\ pc' = "p_generate"
    /\ UNCHANGED << call, params, mode, chunksDir, disk, engine, ret, files, log,
                    completions, hist, lastExc, resumes, writeFaults, modelFaults >>

P_GenerateBegin == pc = "p_generate" /\ Boundary("generating", chunksDir, "p_generate_work")

P_GenerateWork ==
    /\ pc = "p_generate_work"
    /\ stages' = Append(stages, "generate")
    /\ \/ /\ job' = [ job EXCEPT !.output_path = "output.docx" ]
          /\ pc' = "p_complete"
          /\ UNCHANGED << disk, ret, writeFaults, lastExc >>
       \/ \E exc \in { "BoutError", "Exception" } : Raise(exc, job)
    /\ UNCHANGED << call, params, mode, chunksDir, engine, files, log, completions, hist, resumes, modelFaults >>

\* _cleanup(job, chunks_dir)
cleanup(j, chunks_dir) ==
    /\ audioFile' = IF j.audio_path # NoPath THEN FALSE ELSE audioFile
    /\ chunkFiles' = IF chunks_dir # NoPath THEN FALSE ELSE chunkFiles

\* job.status = COMPLETED; save_job(job); _cleanup; return output_path
P_Complete ==
    /\ pc = "p_complete"
    /\ job' = [ job EXCEPT !.status = "completed" ]
    /\ save_job(job', NoPath)
    /\ cleanup(job', chunksDir)
    /\ ret' = "returned " \o job'.output_path
    /\ pc' = "idle"
    /\ UNCHANGED << call, params, mode, chunksDir, engine, log, stages, completions, hist, lastExc, resumes, modelFaults >>

\* ---------------------------------------------------------------- resume()
\* cli resume: job = state_manager.get_job(job_id) (any status), a fresh
\* Orchestrator, orchestrator.resume(job); resume() reads chunks_dir from the
\* stored state.
Resume ==
    /\ pc = "idle" /\ mode # "none"
    /\ resumes < MaxResumes
    /\ disk.kind = "ok"
    /\ resumes' = resumes + 1
    /\ mode' = "resume"
    /\ job' = to_job(disk.state)
    /\ chunksDir' = disk.state.chunks_dir
    /\ model' = "none"
    /\ ci' = 1
    /\ attempt' = 0
    /\ log' = << >>
    /\ stages' = << >>
    /\ ret' = "None"
    /\ lastExc' = "None"
    /\ resumeFrom' = disk.state.status
    /\ pc' = IF disk.state.status = "transcribing" THEN "t_load" ELSE "r_merge"
    /\ UNCHANGED << call, params, disk, files, completions, cut, writeFaults, modelFaults >>

\* Faulty variant: the merge of resume() without its status test.
R_Merge_Always ==
    /\ pc = "r_merge"
    /\ LET m == merge_chunks(job.chunks, OverlapSeconds)
       IN  job' = [ job EXCEPT !.status = "merging",
                               !.transcription_text = Some(m.text),
                               !.segments = m.segments ]
    /\ stages' = Append(stages, "merge")
    /\ pc' = "r_generate"
    /\ UNCHANGED << call, params, mode, chunksDir, disk, engine, ret, files, log,
                    completions, hist, lastExc, resumes, writeFaults, modelFaults >>

\* if job.status in {TRANSCRIBING, MERGING}: status = MERGING; merge
R_Merge ==
    /\ pc = "r_merge"
    /\ IF job.status \in { "transcribing", "merging" }
       THEN /\ LET m == merge_chunks(job.chunks, OverlapSeconds)
               IN  job' = [ job EXCEPT !.status = "merging",
                                       !.transcription_text = Some(m.text),
                                       !.segments = m.segments ]
            /\ stages' = Append(stages, "merge")
       ELSE UNCHANGED << job, stages >>
    /\ pc' = "r_generate"
    /\ UNCHANGED << call, params, mode, chunksDir, disk, engine, ret, files, log,
                    completions, hist, lastExc, resumes, writeFaults, modelFaults >>

\* if job.status in {TRANSCRIBING, MERGING, GENERATING}: status = GENERATING; generate
R_Generate ==
    /\ pc = "r_generate"
    /\ IF job.status \in { "transcribing", "merging", "generating" }
       THEN /\ stages' = Append(stages, "generate")
            /\ \/ /\ job' = [ job EXCEPT !.status = "generating",
                                         !.output_path = "output.docx" ]
                  /\ pc' = "r_complete"
                  /\ UNCHANGED << disk, ret, writeFaults, lastExc >>
               \/ \E exc \in { "BoutError", "Exception" } :
                     Raise(exc, [ job EXCEPT !.status = "generating" ])
       ELSE /\ pc' = "r_complete"
            /\ UNCHANGED << job, stages, disk, ret, writeFaults, lastExc >>
    /\ UNCHANGED << call, params, mode, chunksDir, engine, files, log, completions, hist, resumes, modelFaults >>

\* job.status = COMPLETED; save_job(job); _cleanup; return job.output_path
R_Complete ==
    /\ pc = "r_complete"
    /\ job' = [ job EXCEPT !.status = "completed" ]
    /\ save_job(job', NoPath)
    /\ cleanup(job', chunksDir)
    /\ ret' = "returned " \o job'.output_path
    /\ pc' = "idle"
    /\ UNCHANGED << call, params, mode, chunksDir, engine, log, stages, completions, hist, lastExc, resumes, modelFaults >>

\* ------------------------------------------- AudioChunker.calculate_chunks
\* The planner called on its own: AudioChunker(cd, ov, mc).calculate_chunks(duration)
\* over small parameters and over the default configuration.
PlanArgs(d, cd, ov, mc) == [ duration |-> d, cd |-> cd, ov |-> ov, mc |-> mc ]

PlanInputs ==
    { PlanArgs(d, cd, ov, mc) :
        d \in 0..MaxPlanDuration, cd \in 1..MaxPlanCd, ov \in 0..MaxPlanCd, mc \in 1..MaxPlanMc }
    \cup { PlanArgs(d, ChunkDuration, OverlapSeconds, MinChunkSeconds) :
             d \in { 0, 1, 29, 300, 301, 319, 320, 580, 609, 610, 905, 1200 } }

PlanInit ==
    /\ duration = 0 /\ device = "cpu" /\ useDiar = FALSE
    /\ PipelineStart
    /\ args \in { a \in PlanInputs : a.ov < a.cd }
    /\ result = << >>
    /\ called = FALSE

Plan ==
    /\ ~called
    /\ result' = calculate_chunks(args.duration, args.cd, args.ov, args.mc)
    /\ called' = TRUE
    /\ UNCHANGED << args, pipeline >>

SpecPlanner == PlanInit /\ [][Plan]_vars

\* ------------------------------------------------ ChunkMerger.merge_chunks
\* The merger called on its own, on the chunks of a plan, every chunk
\* COMPLETED, with segments in original-audio time placed anywhere inside
\* their chunk's range and in any order.
MergeParams ==
    { PlanArgs(d, p[1], p[2], p[3]) :
        d \in 1..MaxMergeDuration, p \in { << 3, 1, 1 >>, << 3, 1, 2 >>, << 4, 2, 1 >> } }

\* a segment [start, end] placed in chunk number i of the plan
Placements(plan) ==
    { [ chunk |-> i, start |-> a, end |-> b ] :
        i \in 1..Len(plan), a \in 0..MaxMergeDuration, b \in 0..MaxMergeDuration }

InRange(plan) ==
    { q \in Placements(plan) :
        /\ plan[q.chunk].start_time <= q.start /\ q.start <= q.end
        /\ q.end <= plan[q.chunk].end_time }

TranscribedChunks(plan, placed) ==
    [ i \in 1..Len(plan) |->
        LET Mine(q) == q.chunk = i
            mine == SelectSeq(placed, Mine)
            segs == [ k \in 1..Len(mine) |->
                        [ start |-> mine[k].start, end |-> mine[k].end,
                          text |-> << "w" >>, speaker |-> "None" ] ]
        IN  [ plan[i] EXCEPT !.status = "completed",
                              !.text = Some(SegTexts(segs)),
                              !.segments = segs ] ]

MergeInputs ==
    UNION { LET plan == calculate_chunks(a.duration, a.cd, a.ov, a.mc)
            IN  { [ ov |-> a.ov, chunks |-> TranscribedChunks(plan, placed) ] :
                    placed \in UNION { [ 1..n -> InRange(plan) ] : n \in 0..MaxMergeSegs } }
            : a \in MergeParams }

MergeInit ==
    /\ duration = 0 /\ device = "cpu" /\ useDiar = FALSE
    /\ PipelineStart
    \* args \in MergeInputs, drawn one element at a time
    /\ \E a \in MergeParams :
          LET plan == calculate_chunks(a.duration, a.cd, a.ov, a.mc)
          IN  \E n \in 0..MaxMergeSegs : \E placed \in [ 1..n -> InRange(plan) ] :
                  args = [ ov |-> a.ov, chunks |-> TranscribedChunks(plan, placed) ]
    /\ result = << >>
    /\ called = FALSE

Merge ==
    /\ ~called
    /\ result' = merge_chunks(args.chunks, args.ov)
    /\ called' = TRUE
    /\ UNCHANGED << args, pipeline >>

SpecMerger == MergeInit /\ [][Merge]_vars

\* ------------------------------------------- plan, transcribe, merge
\* The three stages composed on their own, with the default configuration
\* and a recogniser that always answers: calculate_chunks, transcribe_chunk
\* on every chunk (first attempt succeeds), merge_chunks.
ScenarioInputs ==
    { PlanArgs(k * ScenarioStep, ChunkDuration, OverlapSeconds, MinChunkSeconds) :
        k \in 0..MaxScenarioSteps }

ScenarioInit ==
    /\ duration = 0 /\ device = "cpu" /\ useDiar = FALSE
    /\ PipelineStart
    /\ args \in ScenarioInputs
    /\ result = << >>
    /\ called = FALSE

EndToEnd ==
    /\ ~called
    /\ LET plan == calculate_chunks(args.duration, args.cd, args.ov, args.mc)
           done == [ i \in 1..Len(plan) |-> CompleteChunk(plan[i], ModelResult(plan[i])) ]
           m == merge_chunks(done, args.ov)
       IN  result' = [ plan |-> plan, chunks |-> done,
                       text |-> m.text, segments |-> m.segments ]
    /\ called' = TRUE
    /\ UNCHANGED << args, pipeline >>

SpecScenario == ScenarioInit /\ [][EndToEnd]_vars

\* --------------------------------------------- the worker's result alone
\* One chunk of a plan and what the recogniser returned for its file: up to
\* two segments with times in [0, chunk length] and raw texts that may be
\* empty, blank or padded with whitespace.
RawTexts == { << >>, << Sp >>, << "w" >>, << Sp, "w", Sp >> }

ModelSegments(len) ==
    { [ start |-> a, end |-> b, text |-> t ] :
        a \in 0..len, b \in 0..len, t \in RawTexts }

ModelResults(len) ==
    { [ text |-> Flatten([ i \in 1..Len(segs) |-> segs[i].text ]), segments |-> segs ] :
        segs \in UNION { [ 1..n -> { m \in ModelSegments(len) : m.start <= m.end } ] : n \in 0..2 } }

TranscribeInputs ==
    UNION { LET plan == calculate_chunks(d, MaxTranscribeLen, 1, 1)
            IN  UNION { { [ chunk |-> plan[i], model |-> m ] :
                            m \in ModelResults(plan[i].end_time - plan[i].start_time) } :
                        i \in 1..Len(plan) }
            : d \in 1..(2 * MaxTranscribeLen) }

TranscribeInit ==
    /\ duration = 0 /\ device = "cpu" /\ useDiar = FALSE
    /\ PipelineStart
    /\ args \in TranscribeInputs
    /\ result = << >>
    /\ called = FALSE

\* the attempt on the resident model succeeds
TranscribeOnModel ==
    /\ ~called
    /\ result' = [ path |-> "model", chunk |-> CompleteChunk(args.chunk, args.model) ]
    /\ called' = TRUE
    /\ UNCHANGED << args, pipeline >>

\* the CPU fallback succeeds
TranscribeOnCpu ==
    /\ ~called
    /\ result' = [ path |-> "cpu", chunk |-> CompleteChunk(args.chunk, args.model) ]
    /\ called' = TRUE
    /\ UNCHANGED << args, pipeline >>

SpecTranscribe == TranscribeInit /\ [][TranscribeOnModel \/ TranscribeOnCpu]_vars

\* ------------------------------------------------- cleanup_old_jobs alone
\* The jobs directory holds up to two record files; a file has an age
\* (now - mtime) and either a readable record with a status or torn content
\* that load_job cannot read.
JobStatuses ==
    { "pending", "extracting", "chunking", "transcribing", "merging",
      "diarizing", "generating", "completed", "failed", "cancelled" }

JobFiles ==
    { [ kind |-> "absent", status |-> "None", age |-> 0 ] }
        \cup { [ kind |-> k, status |-> st, age |-> a ] :
                    k \in { "ok" }, st \in JobStatuses, a \in 0..MaxFileAge }
        \cup { [ kind |-> "torn", status |-> "None", age |-> a ] : a \in 0..MaxFileAge }

CleanupInputs ==
    { [ files |-> fs, max_age_seconds |-> m, dry_run |-> d ] :
        fs \in [ 1..2 -> JobFiles ], m \in 0..MaxFileAge, d \in BOOLEAN }

\* load_job: None for a missing or unreadable file
Loads(f) == f.kind = "ok"

\* the test of the loop body for one file of the glob
Cleaned(f, max_age_seconds) ==
    /\ f.kind # "absent"
    /\ f.age > max_age_seconds
    /\ Loads(f) /\ f.status \in { "completed", "failed" }

RECURSIVE CountCleaned(_, _, _)
CountCleaned(fs, max_age_seconds, n) ==
    IF n = 0 THEN 0
    ELSE CountCleaned(fs, max_age_seconds, n - 1)
            + (IF Cleaned(fs[n], max_age_seconds) THEN 1 ELSE 0)

cleanup_old_jobs(fs, max_age_seconds, dry_run) ==
    [ files |-> [ i \in DOMAIN fs |->
                    IF Cleaned(fs[i], max_age_seconds) /\ ~dry_run
                    THEN [ kind |-> "absent", status |-> "None", age |-> 0 ]
                    ELSE fs[i] ],
      cleaned |-> CountCleaned(fs, max_age_seconds, 2) ]

CleanupInit ==
    /\ duration = 0 /\ device = "cpu" /\ useDiar = FALSE
    /\ PipelineStart
    /\ args \in CleanupInputs
    /\ result = << >>
    /\ called = FALSE

CleanupOldJobs ==
    /\ ~called
    /\ result' = cleanup_old_jobs(args.files, args.max_age_seconds, args.dry_run)
    /\ called' = TRUE
    /\ UNCHANGED << args, pipeline >>

SpecCleanup == CleanupInit /\ [][CleanupOldJobs]_vars

\* ------------------------------------------- the retry loop of the worker
\* transcribe_chunk alone, one step per pass of "for attempt in
\* range(max_retries)".  result.events is the order of the calls made:
\* "reset" is cleanup_gpu_memory(), "attempt" is model.transcribe on the
\* resident model, "oom" its out-of-memory RuntimeError.
RetryInputs ==
    LET plan == calculate_chunks(3 * ChunkDuration, ChunkDuration, OverlapSeconds,
                                 MinChunkSeconds)
    IN  { [ chunk |-> [ plan[i] EXCEPT !.file_path = "chunk_file" ], device |-> d,
            max_retries |-> m ] :
            i \in 1..Len(plan), d \in { "cuda", "cpu" }, m \in 0..MaxRetriesArg }

RetryInit ==
    /\ duration = 0 /\ device = "cpu" /\ useDiar = FALSE
    /\ PipelineStart
    /\ args \in RetryInputs
    /\ result = [ attempt |-> 0, events |-> << >>, outcome |-> "running",
                  chunk |-> args.chunk ]
    /\ called = FALSE

InLoop == ~called /\ result.attempt < args.max_retries

Finish(events, outcome, chunk) ==
    /\ result' = [ result EXCEPT !.events = events, !.outcome = outcome, !.chunk = chunk ]
    /\ called' = TRUE

\* the attempt returns a result: the chunk is COMPLETED and returned
RetryOk ==
    /\ InLoop
    /\ Finish(result.events \o << "reset", "attempt" >>, "completed",
              CompleteChunk(args.chunk, ModelResult(args.chunk)))
    /\ UNCHANGED << args, pipeline >>

\* Faulty variant: the last resort is taken one attempt too late.
RetryOOM_OneMore ==
    /\ ~called /\ result.attempt <= args.max_retries /\ args.max_retries > 0
    /\ LET events == result.events \o << "reset", "attempt", "oom", "reset" >>
       IN  IF result.attempt # args.max_retries
           THEN /\ result' = [ result EXCEPT !.events = events, !.attempt = @ + 1 ]
                /\ UNCHANGED called
           ELSE IF args.device # "cpu"
           THEN \E ok \in BOOLEAN :
                   Finish(events \o << "unload", "reset", "cpu attempt" >>,
                          IF ok THEN "cpu completed" ELSE "cpu failed",
                          IF ok THEN CompleteChunk(args.chunk, ModelResult(args.chunk))
                          ELSE [ args.chunk EXCEPT !.status = "failed", !.error = "Exception" ])
           ELSE Finish(events, "OutOfMemoryError", args.chunk)
    /\ UNCHANGED << args, pipeline >>

\* the attempt raises the out-of-memory RuntimeError
RetryOOM ==
    /\ InLoop
    /\ LET events == result.events \o << "reset", "attempt", "oom", "reset" >>
       IN  IF result.attempt # args.max_retries - 1
           THEN /\ result' = [ result EXCEPT !.events = events, !.attempt = @ + 1 ]
                /\ UNCHANGED called
           ELSE IF args.device # "cpu"
           THEN \E ok \in BOOLEAN :
                   Finish(events \o << "unload", "reset", "cpu attempt" >>,
                          IF ok THEN "cpu completed" ELSE "cpu failed",
                          IF ok THEN CompleteChunk(args.chunk, ModelResult(args.chunk))
                          ELSE [ args.chunk EXCEPT !.status = "failed", !.error = "Exception" ])
           ELSE Finish(events, "OutOfMemoryError", args.chunk)
    /\ UNCHANGED << args, pipeline >>

\* the attempt raises another RuntimeError (-> TranscriptionError) or any
\* other exception, which leaves the loop at once
RetryError ==
    /\ InLoop
    /\ \E exc \in { "TranscriptionError", "Exception" } :
          Finish(result.events \o << "reset", "attempt" >>, exc, args.chunk)
    /\ UNCHANGED << args, pipeline >>

\* the loop ran out without a return (max_retries = 0): chunk FAILED
RetryExhausted ==
    /\ ~called /\ result.attempt >= args.max_retries
    /\ Finish(result.events, "max retries exceeded",
              [ args.chunk EXCEPT !.status = "failed", !.error = "Max retries exceeded" ])
    /\ UNCHANGED << args, pipeline >>

RetryNext == RetryOk \/ RetryOOM \/ RetryError \/ RetryExhausted

\* every call the loop makes returns or raises, so a pass that can be taken
\* is taken
SpecRetry == RetryInit /\ [][RetryNext]_vars /\ WF_vars(RetryNext)

\* ------------------------------------------ the worker's model and device
\* One TranscriptionEngine over a batch of chunks, one step per chunk.
\* result.model is the device the resident model sits on ("none" when
\* self.model is None), result.device is self.device, result.selected the
\* values self.device has been given, result.events the order of the loads,
\* unloads and transcriptions.
WorkerInputs ==
    { [ requested_device |-> r, chunks |-> n ] :
        r \in { "auto", "cuda", "cpu" }, n \in 1..MaxWorkerChunks }

WorkerInit ==
    /\ duration = 0 /\ device = "cpu" /\ useDiar = FALSE
    /\ PipelineStart
    /\ args \in WorkerInputs
    /\ result = [ model |-> "none", device |-> "None", selected |-> { }, loads |-> 0,
                  done |-> 0, failed |-> 0, events |-> << >>, raised |-> "None" ]
    /\ called = FALSE

\* _detect_device: the requested device, or for "auto" what torch and the
\* free accelerator memory say at the time of the call
detect_device(requested_device) ==
    IF requested_device # "auto" THEN { requested_device } ELSE { "cuda", "cpu" }

\* self.device = self._detect_device() comes before whisper.load_model
Selected(w, dev) ==
    [ w EXCEPT !.device = dev, !.selected = @ \cup { dev } ]

\* load_model when it succeeds: nothing if a model is resident
load_model(w, dev) ==
    IF w.model # "none" THEN w
    ELSE [ Selected(w, dev) EXCEPT !.model = dev, !.loads = @ + 1,
                                   !.events = Append(@, "load " \o dev) ]

unload_model(w) ==
    IF w.model = "none" THEN w
    ELSE [ w EXCEPT !.model = "none", !.events = Append(@, "unload") ]

InBatch == ~called /\ result.done < args.chunks

Transcribed(w) ==
    [ w EXCEPT !.events = Append(@, "transcribe " \o w.model), !.done = @ + 1 ]

\* transcribe_chunk: lazy load, an attempt on the resident model succeeds
W_Ok ==
    /\ InBatch
    /\ \E dev \in detect_device(args.requested_device) :
          result' = Transcribed(load_model(result, dev))
    /\ UNCHANGED << args, called, pipeline >>

\* whisper.load_model fails: ModelLoadError leaves the batch
W_LoadError ==
    /\ InBatch /\ result.model = "none"
    /\ \E dev \in detect_device(args.requested_device) :
          result' = [ Selected(result, dev) EXCEPT !.raised = "ModelLoadError" ]
    /\ called' = TRUE
    /\ UNCHANGED << args, pipeline >>

\* the chunk comes back FAILED from _transcribe_on_cpu and the batch goes on
FailedChunk(w) == [ w EXCEPT !.done = @ + 1, !.failed = @ + 1 ]

\* _transcribe_on_cpu, cut short by an exception at one of its calls
transcribe_on_cpu_upto(w, stage, dev) ==
    LET w1 == unload_model(w)
        w2 == [ w1 EXCEPT !.events = Append(@, "load cpu model") ]
        w3 == [ w2 EXCEPT !.events = Append(@, "cpu transcribe") ]
        w4 == [ w3 EXCEPT !.events = Append(@, "del cpu model") ]
    IN  CASE stage = "load cpu model" -> FailedChunk(w1)
          [] stage = "cpu transcribe" -> FailedChunk(w2)
          [] stage = "reload" -> FailedChunk(Selected(w4, dev))
          [] OTHER -> [ load_model(w4, dev) EXCEPT !.done = @ + 1 ]

\* every attempt on the resident model runs out of memory
W_OOM ==
    /\ InBatch
    /\ \E dev \in detect_device(args.requested_device) :
          LET w == load_model(result, dev)
              oom == [ w EXCEPT !.events = Append(@, "oom " \o w.model) ]
          IN  IF w.device # "cpu"
              THEN /\ \E stage \in { "load cpu model", "cpu transcribe", "reload", "done" } :
                        \E dev2 \in detect_device(args.requested_device) :
                            result' = transcribe_on_cpu_upto(oom, stage, dev2)
                   /\ UNCHANGED called
              ELSE /\ result' = [ oom EXCEPT !.raised = "OutOfMemoryError" ]
                   /\ called' = TRUE
    /\ UNCHANGED << args, pipeline >>

\* transcribe_all_chunks returns
W_Return ==
    /\ ~called /\ result.done = args.chunks
    /\ called' = TRUE
    /\ UNCHANGED << args, result, pipeline >>

SpecWorker == WorkerInit /\ [][W_Ok \/ W_LoadError \/ W_OOM \/ W_Return]_vars

\* ------------------------------------------------------ ProgressTracker
\* A tracker is its stage table, the current stage, the set of completed
\* stages and total_chunks.  completed and total are kept in units of
\* 1 / Den so that the division of complete_chunk is exact.
Den == 2 * 3

StageNames == << "extract", "chunk", "transcribe", "merge", "diarize", "generate" >>

\* STAGE_WEIGHTS, in hundredths
STAGE_WEIGHTS ==
    [ extract |-> 10, chunk |-> 5, transcribe |-> 50, merge |-> 5, diarize |-> 15,
      generate |-> 15 ]

NoStage == [ started |-> FALSE, total |-> 0, completed |-> 0 ]

NewTracker ==
    [ stages |-> [ st \in { StageNames[i] : i \in 1..Len(StageNames) } |-> NoStage ],
      current_stage |-> "None", completed_stages |-> { }, total_chunks |-> 0 ]

start_stage(t, stage, total) ==
    [ t EXCEPT !.stages[stage] = [ started |-> TRUE, total |-> total * Den, completed |-> 0 ],
               !.current_stage = stage ]

\* update_stage(advance, completed): completed, when given, overrides advance
update_stage(t, advance, completed) ==
    IF t.current_stage = "None" THEN t
    ELSE [ t EXCEPT !.stages[t.current_stage].completed =
                        IF completed # None THEN completed[1] * Den ELSE @ + advance * Den ]

complete_stage(t) ==
    IF t.current_stage = "None" THEN t
    ELSE [ t EXCEPT !.stages[t.current_stage].completed = t.stages[t.current_stage].total,
                    !.completed_stages = @ \cup { t.current_stage } ]

set_chunks(t, total) == [ t EXCEPT !.total_chunks = total ]

\* stage.completed = ((chunk_index + 1) / total_chunks) * stage.total
complete_chunk(t, chunk_index) ==
    IF t.stages["transcribe"].started /\ t.total_chunks > 0
    THEN [ t EXCEPT !.stages["transcribe"].completed =
                        ((chunk_index + 1) * t.stages["transcribe"].total) \div t.total_chunks ]
    ELSE t

\* the calls a caller can make, with small arguments
TrackerInit ==
    /\ duration = 0 /\ device = "cpu" /\ useDiar = FALSE
    /\ PipelineStart
    /\ args \in { [ total_chunks |-> n ] : n \in 0..2 }
    /\ result = [ t |-> set_chunks(NewTracker, args.total_chunks), calls |-> 0,
                  last |-> "None" ]
    /\ called = FALSE

TrackerCall(t, name) ==
    /\ result.calls < MaxTrackerCalls
    /\ result' = [ t |-> t, calls |-> result.calls + 1, last |-> name ]
    /\ called' = TRUE
    /\ UNCHANGED << args, pipeline >>

K_StartStage ==
    \E stage \in { "extract", "transcribe" }, total \in 0..2 :
        TrackerCall(start_stage(result.t, stage, total), "start_stage")

K_UpdateStage ==
    \E advance \in 0..2, completed \in { None, Some(0), Some(1), Some(2) } :
        TrackerCall(update_stage(result.t, advance, completed), "update_stage")

K_CompleteStage == TrackerCall(complete_stage(result.t), "complete_stage")

K_CompleteChunk ==
    \E chunk_index \in 0..1 :
        TrackerCall(complete_chunk(result.t, chunk_index), "complete_chunk")

SpecTracker ==
    TrackerInit /\ [][K_StartStage \/ K_UpdateStage \/ K_CompleteStage \/ K_CompleteChunk]_vars

\* --------------------------------------------- consolidate_segments alone
\* Labelled segments as merge_with_transcription hands them over: times 0..3
\* with start <= end (gaps from -3 to 3 around the threshold of 1), one of
\* two speakers, and the word T_k as the text of segment number k.
SegmentShapes ==
    { [ start |-> a, end |-> b, speaker |-> sp ] :
        a \in 0..3, b \in 0..3, sp \in { "Hablante 1", "Hablante 2" } }

LabelledSegments(shapes) ==
    [ k \in 1..Len(shapes) |->
        [ start |-> shapes[k].start, end |-> shapes[k].end,
          text |-> << Words[k] >>, speaker |-> shapes[k].speaker ] ]

ConsolidateInit ==
    /\ duration = 0 /\ device = "cpu" /\ useDiar = FALSE
    /\ PipelineStart
    /\ \E n \in 0..MaxConsolidateSegs :
          \E shapes \in [ 1..n -> { sh \in SegmentShapes : sh.start <= sh.end } ] :
              args = [ segments |-> LabelledSegments(shapes) ]
    /\ result = << >>
    /\ called = FALSE

ConsolidateCall ==
    /\ ~called
    /\ result' = consolidate_segments(args.segments)
    /\ called' = TRUE
    /\ UNCHANGED << args, pipeline >>

SpecConsolidate == ConsolidateInit /\ [][ConsolidateCall]_vars

Next ==
    \/ Process
    \/ P_ExtractBegin \/ P_ExtractWork
    \/ P_ChunkBegin \/ P_ChunkWork
    \/ P_TranscribeBegin
    \/ T_Load \/ T_Return \/ T_Skip \/ T_Begin
    \/ T_AttemptOk \/ T_AttemptOOM \/ T_AttemptError
    \/ T_Checkpoint \/ T_Progress
    \/ P_MergeBegin \/ P_MergeWork
    \/ P_DiarizeBegin \/ P_DiarizeWork
    \/ P_GenerateBegin \/ P_GenerateWork
    \/ P_Complete
    \/ Resume \/ R_Merge \/ R_Generate \/ R_Complete
    \/ Interrupt \/ Crash

Spec == Init /\ [][Next]_vars

\* ================================================================== claims
TranscribePcs == { "t_load", "t_loop", "t_attempt", "t_checkpoint", "t_progress" }

Last(q) == q[Len(q)]

\* C1: transcribe_all_chunks takes the chunks in ascending index order, and
\* for every chunk it transcribes, the checkpoint callback of that chunk is
\* the next callback, the progress callback (i+1, N) follows it, and only
\* then does the transcription of a later chunk begin.
C1_CheckpointBeforeProgress ==
    /\ \A p \in 1..Len(log) :
          /\ log[p].ev = "transcribe" =>
                /\ p + 1 <= Len(log) => log[p + 1] = Event("checkpoint", log[p].n)
                /\ p + 2 <= Len(log) => log[p + 2] = Event("progress", log[p].n)
                /\ p > 1 => log[p - 1].ev = "progress" /\ log[p - 1].n < log[p].n
          /\ log[p].ev = "checkpoint" => p > 1 /\ log[p - 1] = Event("transcribe", log[p].n)
          /\ p > 1 => log[p - 1].n <= log[p].n
          /\ log[p].n \in 1..Len(job.chunks) /\ job.chunks[log[p].n].index = log[p].n - 1
    /\ pc = "t_progress" => log # << >> /\ Last(log) = Event("checkpoint", ci)
    /\ pc = "t_checkpoint" => log # << >> /\ Last(log) = Event("transcribe", ci)

C1_Witness ==
    /\ Len(log) >= 6
    /\ log[1] = Event("transcribe", 1) /\ log[2] = Event("checkpoint", 1)
    /\ log[3] = Event("progress", 1) /\ log[4] = Event("transcribe", 2)
    /\ log[6] = Event("progress", 2)

\* C2: during the transcribe stage, every chunk for which progress (i+1, N)
\* has been reported is COMPLETED, with its result, in the persisted record
\* (in runs where no write of the record failed).
C2_ProgressImpliesPersisted ==
    (pc \in TranscribePcs /\ writeFaults = 0) =>
        \A p \in 1..Len(log) :
            log[p].ev = "progress" =>
                /\ disk.kind = "ok"
                /\ log[p].n \in DiskCompleted
                /\ disk.state.chunks[log[p].n].text = job.chunks[log[p].n].text
                /\ disk.state.chunks[log[p].n].segments = job.chunks[log[p].n].segments

\* A chunk that is COMPLETED in the live job while transcribe_all_chunks runs
\* is not given to the model and is not modified.
CompletedChunksUntouched ==
    \A i \in 1..Len(job.chunks) :
        (pc \in TranscribePcs /\ job.chunks[i].status = "completed") =>
            /\ Len(job'.chunks) = Len(job.chunks)
            /\ job'.chunks[i] = job.chunks[i]
            /\ completions'[i] = completions[i]

UninterruptedResult ==
    LET plan == calculate_chunks(duration, ChunkDuration, OverlapSeconds, MinChunkSeconds)
    IN  merge_chunks([ i \in 1..Len(plan) |-> CompleteChunk(plan[i], ModelResult(plan[i])) ],
                     OverlapSeconds)

RunEnded == pc = "idle" /\ ret # "crashed"

\* C4: a run of a plan with at least 2 chunks that was interrupted in the
\* transcribe stage after a chunk had been persisted, and was then resumed to
\* its end, has the transcription_text and the segments of the uninterrupted
\* run (no model fault, no write fault, no diarization).
C4_ResumeEquivalence ==
    ( /\ mode = "resume" /\ resumes = 1 /\ RunEnded /\ lastExc = "None"
      /\ cut.kind # "none" /\ cut.stage = "transcribing" /\ cut.persisted # { }
      /\ Len(job.chunks) >= 2
      /\ modelFaults = 0 /\ writeFaults = 0 /\ ~useDiar )
    => /\ job.transcription_text = Some(UninterruptedResult.text)
       /\ job.segments = UninterruptedResult.segments

ResumableStatuses == { "extracting", "chunking", "transcribing", "merging", "generating" }

StagesFrom(status) ==
    CASE status = "extracting" -> << "extract", "chunk", "transcribe", "merge", "generate" >>
      [] status = "chunking" -> << "chunk", "transcribe", "merge", "generate" >>
      [] status = "transcribing" -> << "transcribe", "merge", "generate" >>
      [] status = "merging" -> << "merge", "generate" >>
      [] status = "generating" -> << "generate" >>
      [] OTHER -> << >>

IsPrefix(a, b) == Len(a) <= Len(b) /\ a = SubSeq(b, 1, Len(a))

\* C5: resume() of a job in a resumable status runs exactly the stage named
\* by the status and the later stages, in order, and marks the job COMPLETED
\* only after all of them (in runs where no write of the record failed).
C5_ResumeReexecutes ==
    (mode = "resume" /\ resumeFrom \in ResumableStatuses /\ writeFaults = 0) =>
        /\ IsPrefix(stages, StagesFrom(resumeFrom))
        /\ job.status = "completed" => stages = StagesFrom(resumeFrom)

\* the process() run of a 2-chunk job ended by a user interrupt that arrived
\* in the transcribe stage when the first chunk was COMPLETED on disk
InterruptedAfterFirstChunk ==
    /\ mode = "process" /\ pc = "idle" /\ lastExc = "KeyboardInterrupt"
    /\ cut.kind = "interrupt" /\ cut.stage = "transcribing" /\ 1 \in cut.persisted
    /\ Len(job.chunks) = 2

C7_InterruptCancels ==
    ( /\ pc = "idle" /\ lastExc = "KeyboardInterrupt"
      /\ mode = "resume" => resumeFrom \in ResumableStatuses ) =>
        /\ job.status = "cancelled"
        /\ ret = "returned None"
        /\ writeFaults = 0 => disk.kind = "ok" /\ disk.state.status = "cancelled"

\* C8: a run that an exception of a stage ends has set the job FAILED with
\* the error, persisted it (unless the write failed), and raised the same
\* BoutError, or BoutError("Pipeline failed") for any other exception.
C8_FailureRecordedAndWrapped ==
    (pc = "idle" /\ lastExc \in { "BoutError", "Exception" }) =>
        /\ job.status = "failed" /\ job.error = lastExc
        /\ writeFaults = 0 => /\ disk.kind = "ok"
                              /\ disk.state.status = "failed"
                              /\ disk.state.error = lastExc
        /\ ret = IF lastExc = "BoutError" THEN "raised BoutError"
                 ELSE "raised BoutError(Pipeline failed)"

StatusOfStage(stage) ==
    CASE stage = "extract" -> "extracting"
      [] stage = "chunk" -> "chunking"
      [] stage = "transcribe" -> "transcribing"
      [] stage = "merge" -> "merging"
      [] stage = "diarize" -> "diarizing"
      [] stage = "generate" -> "generating"

StatusOrder == << "pending", "extracting", "chunking", "transcribing", "merging",
                  "diarizing", "generating", "completed" >>

Rank(status) == CHOOSE r \in 1..Len(StatusOrder) : StatusOrder[r] = status

Ordered(status) == \E r \in 1..Len(StatusOrder) : StatusOrder[r] = status

\* C9: in process() and in resume(), when the work of a stage starts the
\* persisted record already names that stage (unless a write failed), and
\* the persisted status never moves backwards in the stage order.
C9_StageBoundariesPersisted ==
    [][ /\ (Len(stages') = Len(stages) + 1 /\ writeFaults = 0) =>
              /\ disk.kind = "ok"
              /\ disk.state.status = StatusOfStage(Last(stages'))
        /\ ( /\ disk.kind = "ok" /\ disk'.kind = "ok"
             /\ Ordered(disk.state.status) /\ Ordered(disk'.state.status) ) =>
              Rank(disk.state.status) <= Rank(disk'.state.status) ]_vars

\* C10: resume() on a job whose status is not resumable runs no stage and
\* leaves the persisted record as it is; a FAILED or CANCELLED job never
\* becomes COMPLETED.
C10_ResumeOnlyFromResumable ==
    (mode = "resume" /\ resumeFrom \notin ResumableStatuses) =>
        /\ stages = << >>
        /\ disk.kind = "ok" => disk.state.status = resumeFrom

\* C11: resume() of a job whose persisted status is COMPLETED runs no stage
\* and no model call, leaves status, chunks, transcription_text and
\* output_path as they were stored, in the live job and in every complete
\* record it writes, and returns the stored output_path.
C11_CompletedResumeIsNoOp ==
    [][ (mode' = "resume" /\ resumeFrom' = "completed" /\ disk.kind = "ok") =>
          /\ stages' = << >>
          /\ completions' = completions
          /\ job'.status = "completed"
          /\ job'.chunks = to_job(disk.state).chunks
          /\ job'.transcription_text = disk.state.transcription_text
          /\ job'.output_path = disk.state.output_path
          /\ disk'.kind = "ok" =>
                /\ disk'.state.status = "completed"
                /\ disk'.state.chunks = disk.state.chunks
                /\ disk'.state.transcription_text = disk.state.transcription_text
                /\ disk'.state.output_path = disk.state.output_path
          /\ (pc' = "idle" /\ ret' \notin { "crashed", "raised KeyboardInterrupt" }) =>
                ret' = "returned " \o disk.state.output_path ]_vars

C11_Witness ==
    /\ mode = "resume" /\ resumeFrom = "completed" /\ pc = "idle"
    /\ ret = "returned output.docx"
    /\ disk.kind = "ok" /\ disk.state.status = "completed"
    /\ disk.state.output_path = "output.docx"
    /\ Len(disk.state.chunks) = 2 /\ DiskCompleted = { 1, 2 }

\* C12: no write of the record ever leaves jobs/<id>.json partially written:
\* after every step the file holds a complete record (the previous one or
\* the new one), and a chunk that was COMPLETED in the record stays COMPLETED
\* in it.
C12_RecordNeverTorn ==
    [][ /\ disk'.kind # "torn"
        /\ \A i \in DiskCompleted : i \in DiskCompleted' ]_vars

\* the step is a successful save_chunk_result (the record was loaded and
\* written back)
CheckpointWritten ==
    /\ pc = "t_checkpoint" /\ pc' = "t_progress"
    /\ disk.kind = "ok" /\ writeFaults' = writeFaults

\* the step is a successful save_job of the live job: a stage boundary after
\* the transcribe stage, the completion, or an exception handler
JobWritten ==
    /\ writeFaults' = writeFaults
    /\ \/ pc = "p_merge" /\ pc' = "p_merge_work"
       \/ pc = "p_diarize" /\ pc' = "p_diarize_work"
       \/ pc = "p_generate" /\ pc' = "p_generate_work"
       \/ /\ Running /\ pc' = "idle"
          /\ ret' \notin { "crashed", "raised KeyboardInterrupt" }

CompletedInRun(j) == { i \in 1..Len(j.chunks) : j.chunks[i].status = "completed" }

\* C13: a checkpoint write that fails does not end the run (the engine goes
\* on to report progress), and after the next successful save_chunk_result or
\* save_job every chunk completed so far in the run is COMPLETED in the
\* persisted record.
C13_NextWriteCatchesUp ==
    [][ /\ (pc = "t_checkpoint" /\ log' # log /\ writeFaults' > writeFaults) =>
              pc' = "t_progress" /\ lastExc' = lastExc
        /\ (CheckpointWritten \/ JobWritten) =>
              /\ disk'.kind = "ok"
              /\ CompletedInRun(job') \subseteq DiskCompleted' ]_vars

AfterTranscribeStatuses == { "merging", "diarizing", "generating", "completed" }

\* C14: transcribe_chunk either hands back the chunk COMPLETED or ends the
\* run: a chunk whose retries and CPU fallback are both exhausted is never
\* checkpointed or counted as progress, and a process() run never gets past
\* the transcribe stage with a chunk that is not COMPLETED.
C14_OOMFatalWhenExhausted ==
    /\ pc \in { "t_checkpoint", "t_progress" } => job.chunks[ci].status = "completed"
    /\ (mode = "process" /\ job.status \in AfterTranscribeStatuses) =>
          \A i \in 1..Len(job.chunks) : job.chunks[i].status = "completed"

\* the step is an attempt of transcribe_chunk ending in TranscriptionError
\* (a BoutError out of the retry loop that is not the OutOfMemoryError of the
\* last attempt on a cpu device)
NonOOMErrorStep ==
    /\ pc = "t_attempt" /\ pc' = "idle"
    /\ lastExc' = "BoutError" /\ modelFaults' > modelFaults
    /\ ~(attempt = MaxRetries - 1 /\ device = "cpu")

\* C15: a non-OOM error of an attempt is not retried: the run ends at once
\* with the chunk marked FAILED, the job FAILED, and the job persisted as
\* FAILED (unless that write failed).
C15_ErrorFailsChunkAndJob ==
    [][ NonOOMErrorStep =>
          /\ attempt' = attempt
          /\ job'.chunks[ci].status = "failed"
          /\ job'.status = "failed"
          /\ writeFaults' = writeFaults =>
                disk'.kind = "ok" /\ disk'.state.status = "failed" ]_vars

\* the chunks of the live job as the chunk stage of process() leaves them
PlannedChunks ==
    LET plan == calculate_chunks(duration, ChunkDuration, OverlapSeconds, MinChunkSeconds)
    IN  IF Len(plan) = 1 THEN << [ plan[1] EXCEPT !.file_path = "audio_file" ] >>
        ELSE split_audio(plan)

\* what transcribe_chunk returns for planned chunk i when its first attempt succeeds
FirstTrySuccess(i) == CompleteChunk(PlannedChunks[i], ModelResult(PlannedChunks[i]))

\* C16: an attempt that hits OOM and is retried changes nothing in the job,
\* and an attempt that succeeds, after any number of OOM attempts, leaves the
\* chunk COMPLETED with the model's text and segments and nothing else
\* changed; in a process() run that is exactly the chunk a first-try success
\* gives (status COMPLETED, error None).
C16_RetryLeavesNoTrace ==
    [][ /\ (pc = "t_attempt" /\ pc' = "t_attempt") => job' = job
        /\ (pc = "t_attempt" /\ pc' = "t_checkpoint" /\ modelFaults' = modelFaults) =>
              /\ job'.chunks[ci] = CompleteChunk(job.chunks[ci], ModelResult(job.chunks[ci]))
              /\ \A i \in 1..Len(job.chunks) : i # ci => job'.chunks[i] = job.chunks[i]
              /\ mode = "process" => job'.chunks[ci] = FirstTrySuccess(ci) ]_vars

C16_Witness ==
    /\ mode = "process" /\ pc = "t_checkpoint" /\ ci = 2
    /\ attempt = 2 /\ modelFaults = 2
    /\ job.chunks[2] = FirstTrySuccess(2)
    /\ job.chunks[2].status = "completed" /\ job.chunks[2].error = "None"

\* C17: for duration > 0, 0 <= overlap < chunk_duration and min_chunk > 0 the
\* plan has indices 0..N-1 in list order, starts at 0, ends at duration, each
\* start is the previous start plus (chunk_duration - overlap), consecutive
\* chunks leave no gap, and overlap_start is 0 for index 0 and overlap for
\* every other index.
C17_PlanCoversDuration ==
    (called /\ args.duration > 0) =>
        LET n == Len(result)
            step == args.cd - args.ov
        IN  /\ n >= 1
            /\ \A i \in 1..n : result[i].index = i - 1
            /\ result[1].start_time = 0
            /\ result[n].end_time = args.duration
            /\ \A i \in 1..(n - 1) :
                  /\ result[i + 1].start_time = result[i].start_time + step
                  /\ result[i].end_time >= result[i + 1].start_time
            /\ \A i \in 1..n : result[i].overlap_start = IF i = 1 THEN 0 ELSE args.ov

C17_Witness ==
    /\ called /\ args.ov > 0 /\ Len(result) >= 3
    /\ result[3].start_time = 2 * (args.cd - args.ov)
    /\ result[1].end_time > result[2].start_time
    /\ result[Len(result)].end_time = args.duration

\* C18: every chunk of a plan is at least min_chunk long, except when the
\* total duration is smaller than chunk_duration.
C18_ChunksAtLeastMinChunk ==
    (called /\ args.duration >= args.cd) =>
        \A i \in 1..Len(result) :
            result[i].end_time - result[i].start_time >= args.mc

\* number of chunks of a plan for duration > chunk_duration: the first
\* candidate index k > 0 at which less than min_chunk is left
PlanSize(a) ==
    LET step == a.cd - a.ov
        Short(k) == a.duration - k * step < a.mc
    IN  CHOOSE k \in 1..(a.duration + 1) : Short(k) /\ \A j \in 1..(k - 1) : ~Short(j)

\* C19: the plan is empty for duration <= 0, the single chunk [0, duration]
\* for 0 < duration <= chunk_duration, and otherwise has a chunk at every
\* multiple of (chunk_duration - overlap) up to, and not including, the first
\* one where less than min_chunk is left, the last chunk ending at duration;
\* with the default parameters 301 gives [0, 301] and 905 gives chunks at
\* 0, 290, 580, 870, the last being [870, 905].
C19_PlanShape ==
    called =>
        /\ args.duration <= 0 => result = << >>
        /\ (0 < args.duration /\ args.duration <= args.cd) =>
              result = << NewChunk(0, 0, args.duration, 0) >>
        /\ args.duration > args.cd =>
              LET n == PlanSize(args)
                  step == args.cd - args.ov
              IN  /\ Len(result) = n
                  /\ \A i \in 1..n :
                        /\ result[i].start_time = (i - 1) * step
                        /\ i > 1 => args.duration - result[i].start_time >= args.mc
                        /\ result[i].end_time =
                              IF i = n THEN args.duration
                              ELSE Min(result[i].start_time + args.cd, args.duration)
        /\ args = PlanArgs(ChunkDuration + 1, ChunkDuration, OverlapSeconds, MinChunkSeconds) =>
              result = << NewChunk(0, 0, ChunkDuration + 1, 0) >>
        /\ args = PlanArgs(905, ChunkDuration, OverlapSeconds, MinChunkSeconds) =>
              /\ [ i \in 1..Len(result) |-> result[i].start_time ] = << 0, 290, 580, 870 >>
              /\ result[4].end_time = 905

C19_Witness ==
    /\ called /\ args = PlanArgs(609, ChunkDuration, OverlapSeconds, MinChunkSeconds)
    /\ Len(result) = 2
    /\ result[2].start_time = 290 /\ result[2].end_time = 609

\* twice the midpoint of the segment lies strictly between the start of
\* chunk i+1 and the end of chunk i
MidpointInOverlap(seg, cs, i) ==
    /\ 2 * cs[i + 1].start_time < seg.start + seg.end
    /\ seg.start + seg.end < 2 * cs[i].end_time

\* C20: merging the COMPLETED chunks of a plan, whatever in-range segments
\* they carry, gives segments whose start values are non-decreasing and none
\* of whose midpoints lies inside the overlap window of two adjacent chunks.
C20_MergedSortedOutsideOverlap ==
    called =>
        LET segs == result.segments
            cs == args.chunks
        IN  /\ \A k \in 1..(Len(segs) - 1) : segs[k].start <= segs[k + 1].start
            /\ \A k \in 1..Len(segs) : \A i \in 1..(Len(cs) - 1) :
                  ~MidpointInOverlap(segs[k], cs, i)

\* The same holds for every plan of at least two chunks: only the single-chunk
\* return of merge_chunks hands the segments back unsorted.
C20_TwoChunksOrMore ==
    (called /\ Len(args.chunks) >= 2) => C20_MergedSortedOutsideOverlap

Seg(a, b, word) == [ start |-> a, end |-> b, text |-> << word >>, speaker |-> "None" ]

\* C21: for duration 600 with the default configuration and the recogniser
\* that answers (0, b - a, T_k) for the chunk [a, b], the plan is [0, 300],
\* [290, 600] and the merge gives the segments (0, 290, T_0), (300, 600, T_1)
\* and the text "T_0 T_1".
C21_Scenario600 ==
    (called /\ args.duration = 600) =>
        /\ Len(result.plan) = 2
        /\ result.plan[1].start_time = 0 /\ result.plan[1].end_time = 300
        /\ result.plan[2].start_time = 290 /\ result.plan[2].end_time = 600
        /\ result.segments = << Seg(0, 290, "T_0"), Seg(300, 600, "T_1") >>
        /\ result.text = << "T_0", "T_1" >>

\* C21 amended: the same plan and text, and the two segments kept whole as
\* the recogniser gave them, (0, 300, T_0) and (290, 600, T_1): the merge
\* keeps or drops a segment, it never clips one to the overlap boundary.
C21_Scenario600Whole ==
    (called /\ args.duration = 600) =>
        /\ Len(result.plan) = 2
        /\ result.plan[1].start_time = 0 /\ result.plan[1].end_time = 300
        /\ result.plan[2].start_time = 290 /\ result.plan[2].end_time = 600
        /\ result.segments = << Seg(0, 300, "T_0"), Seg(290, 600, "T_1") >>
        /\ result.text = << "T_0", "T_1" >>

C21_Witness ==
    /\ called /\ args = PlanArgs(600, ChunkDuration, OverlapSeconds, MinChunkSeconds)
    /\ Len(result.chunks) = 2 /\ Len(result.segments) = 2
    /\ result.segments[2].start = 290

\* C22: merge_chunks on a single transcribed chunk returns that chunk's text
\* and segments unchanged: nothing is filtered out and nothing is reordered.
C22_SingleChunkUnchanged ==
    (called /\ Len(args.chunks) = 1) =>
        /\ result.segments = args.chunks[1].segments
        /\ Some(result.text) = args.chunks[1].text

\* a lone chunk whose segments are out of order and reach into what would be
\* the overlap window of a first chunk
C22_Witness ==
    /\ called /\ Len(args.chunks) = 1
    /\ Len(args.chunks[1].segments) = 2
    /\ args.chunks[1].segments[1].start > args.chunks[1].segments[2].start
    /\ args.chunks[1].segments[1].end > args.chunks[1].end_time - args.ov
    /\ result.segments = args.chunks[1].segments

\* C23: every chunk transcribed, on the resident model or through the CPU
\* fallback, stores the model's segments rebased by chunk.start_time with
\* trimmed text, without the segments whose trimmed text is empty: no stored
\* segment has empty text and every stored segment lies within the chunk.
C23_StoredSegments ==
    called =>
        LET c == args.chunk
            NonEmpty(seg) == Strip(seg.text) # << >>
            kept == SelectSeq(args.model.segments, NonEmpty)
            stored == result.chunk.segments
        IN  /\ stored = [ i \in 1..Len(kept) |->
                            [ start |-> c.start_time + kept[i].start,
                              end |-> c.start_time + kept[i].end,
                              text |-> Strip(kept[i].text),
                              speaker |-> "None" ] ]
            /\ \A i \in 1..Len(stored) :
                    /\ stored[i].text # << >>
                    /\ c.start_time <= stored[i].start
                    /\ stored[i].end <= c.end_time

C25_RoundTripFixpoint ==
    disk.kind = "ok" => from_job(to_job(disk.state), NoPath) = disk.state

\* C25, supporting: every field other than chunks_dir does round-trip.
C25_OtherFieldsRoundTrip ==
    disk.kind = "ok" =>
        from_job(to_job(disk.state), disk.state.chunks_dir) = disk.state

\* C26: cleanup_old_jobs(max_age_seconds) deletes exactly the records whose
\* file age exceeds max_age_seconds and whose status is terminal (COMPLETED,
\* FAILED or CANCELLED), and never a record with a non-terminal status.
C26_DeletesOldTerminal ==
    (called /\ ~args.dry_run) =>
        \A i \in 1..2 :
            LET f == args.files[i]
                deleted == f.kind # "absent" /\ result.files[i].kind = "absent"
            IN  deleted <=> ( /\ f.kind = "ok"
                              /\ f.age > args.max_age_seconds
                              /\ f.status \in { "completed", "failed", "cancelled" } )

\* C26, supporting: no record with a non-terminal status is ever deleted.
C26_NeverDeletesNonTerminal ==
    called =>
        \A i \in 1..2 :
            (args.files[i].kind = "ok" /\ result.files[i].kind = "absent")
                => args.files[i].status \in { "completed", "failed" }

\* C27: a diarization failure (an exception while diarizing, assigning
\* speakers or consolidating, or missing credentials) is non-fatal: the step
\* of the diarization stage never changes the status to FAILED, raises
\* nothing, writes nothing, and hands over to the GENERATING stage.
C27_DiarizationNonFatal ==
    [][ (pc = "p_diarize_work" /\ stages' # stages)
            => /\ job'.status = "diarizing"
               /\ job'.error = job.error
               /\ pc' = "p_generate"
               /\ ret' = ret /\ lastExc' = lastExc /\ disk' = disk ]_vars

\* a run whose diarization gave no speaker labels and that completed
C27_Witness ==
    /\ mode = "process" /\ useDiar /\ job.status = "completed"
    /\ \E i \in 1..Len(stages) : stages[i] = "diarize"
    /\ job.segments # << >> /\ job.segments[1].speaker = "None"
    /\ job.output_path # NoPath

\* C28: a video of duration 0 is rejected at the extraction stage: the run
\* never enters the chunking stage or a later one, in memory or on disk, and
\* once it has failed the job is persisted FAILED (when no write failed).
C28_ZeroDurationRejectedAtExtraction ==
    (duration = 0 /\ mode = "process") =>
        /\ job.status \in { "pending", "extracting", "failed", "cancelled" }
        /\ \A i \in 1..Len(stages) : stages[i] = "extract"
        /\ disk.kind = "ok" =>
                disk.state.status \in { "pending", "extracting", "failed", "cancelled" }
        /\ (pc = "idle" /\ lastExc \notin { "None", "KeyboardInterrupt" } /\ writeFaults = 0)
                => (disk.kind = "ok" /\ disk.state.status = "failed")

\* number of positions of seq that hold x
Count(seq, x) == Cardinality({ k \in 1..Len(seq) : seq[k] = x })

\* C29: with skip_until = start_time + overlap_start and cutoff = end_time -
\* overlap, a merge of two or more chunks keeps from the first chunk exactly
\* the segments with end <= cutoff or (start < cutoff and midpoint < cutoff),
\* from the last exactly those with start >= skip_until or (end > skip_until
\* and midpoint >= skip_until), and from a middle chunk exactly those with
\* (start >= skip_until and end <= cutoff) or midpoint in [skip_until, cutoff].
C29_KeptSegments ==
    (called /\ Len(args.chunks) >= 2) =>
        LET cs == args.chunks
            n == Len(cs)
            skip_until(i) == cs[i].start_time + cs[i].overlap_start
            cutoff(i) == cs[i].end_time - args.ov
            Stated(i, seg) ==
                IF i = 1
                THEN seg.end <= cutoff(i)
                        \/ (seg.start < cutoff(i) /\ seg.start + seg.end < 2 * cutoff(i))
                ELSE IF i = n
                THEN seg.start >= skip_until(i)
                        \/ (seg.end > skip_until(i) /\ seg.start + seg.end >= 2 * skip_until(i))
                ELSE (seg.start >= skip_until(i) /\ seg.end <= cutoff(i))
                        \/ (seg.start + seg.end >= 2 * skip_until(i)
                                /\ seg.start + seg.end <= 2 * cutoff(i))
            expected == Flatten([ i \in 1..n |->
                            LET K(seg) == Stated(i, seg) IN SelectSeq(cs[i].segments, K) ])
        IN  /\ Len(result.segments) = Len(expected)
            /\ \A k \in 1..Len(expected) :
                    Count(result.segments, expected[k]) = Count(expected, expected[k])
            /\ Len(result.text) = Len(expected)

\* three chunks: the first chunk's segment is dropped and the middle chunk's
\* segment, which starts inside the overlap, is kept by its midpoint
C29_Witness ==
    /\ called /\ Len(args.chunks) >= 3
    /\ Len(args.chunks[1].segments) = 1 /\ Len(args.chunks[2].segments) = 1
    /\ args.chunks[2].segments[1].start < args.chunks[2].start_time + args.chunks[2].overlap_start
    /\ result.segments = args.chunks[2].segments

\* C30: transcribe_chunk makes at most max_retries attempts on the resident
\* model; an OOM on an attempt other than the last leads to another attempt,
\* an OOM on the last attempt leads to the CPU fallback when the device is
\* not CPU and to OutOfMemoryError when it is; caches are reset right before
\* every attempt and right after every OOM.
C30_Safe ==
    LET ev == result.events
        attempts == Count(ev, "attempt")
        ooms == Count(ev, "oom")
        m == args.max_retries
    IN  /\ attempts <= m
        /\ \A k \in 1..Len(ev) :
              /\ ev[k] = "attempt" => (k > 1 /\ ev[k - 1] = "reset")
              /\ ev[k] = "oom" => (k < Len(ev) /\ ev[k + 1] = "reset")
        /\ (~called /\ m > 0) => (ooms = attempts /\ attempts < m /\ result.attempt = attempts)
        /\ (ooms = m /\ m > 0) =>
              /\ called
              /\ IF args.device = "cpu" THEN result.outcome = "OutOfMemoryError"
                 ELSE result.outcome \in { "cpu completed", "cpu failed" }
        /\ result.outcome \in { "OutOfMemoryError", "cpu completed", "cpu failed" }
              => ooms = m

\* ... and the call always terminates.
C30_RetriesBounded == []C30_Safe /\ <>called

\* three OOMs in a row on an accelerator, then the CPU fallback succeeds
C30_Witness ==
    /\ called /\ args.device = "cuda" /\ args.max_retries = MaxRetries
    /\ Count(result.events, "oom") = MaxRetries
    /\ result.outcome = "cpu completed" /\ result.chunk.status = "completed"

\* positions of the events of a CPU fallback: each starts with "unload"
FallbackAt(ev, k) == ev[k] = "unload"

\* C31: a CPU fallback performs, in order, unload of the GPU model, load of
\* a CPU model, transcription of this chunk, unload of the CPU model, reload
\* of the GPU model; after a fallback, successful or not, every later chunk
\* is transcribed on a loaded model on the GPU device.
C31_FallbackRestoresGpuModel ==
    LET ev == result.events
        order == << "unload", "load cpu model", "cpu transcribe", "del cpu model", "load cuda" >>
    IN  /\ \A k \in 1..Len(ev) : \A j \in 1..3 :
              (FallbackAt(ev, k) /\ k + j <= Len(ev)
                    /\ ev[k + j] \in { order[2], order[3], order[4] })
                  => ev[k + j] = order[j + 1]
        /\ \A k \in 1..Len(ev) :
              (ev[k] = "del cpu model" /\ k < Len(ev)) => ev[k + 1] = "load cuda"
        /\ \A k \in 1..Len(ev) : \A n \in (k + 1)..Len(ev) :
              (FallbackAt(ev, k) /\ ev[n] \in { "transcribe cuda", "transcribe cpu",
                                                "transcribe none", "oom cuda", "oom cpu" })
                  => ev[n] \in { "transcribe cuda", "oom cuda" }

\* C31, supporting: with the device requested by name the property holds.
C31_HoldsForNamedDevice ==
    args.requested_device # "auto" => C31_FallbackRestoresGpuModel

\* C32: the device is selected once and the model kept resident: without a
\* CPU fallback the model is loaded exactly once over any number of chunks,
\* and over the worker's lifetime the selected device never changes.
C32_DeviceSelectedOnce ==
    LET ev == result.events
        fallbacks == { k \in 1..Len(ev) : FallbackAt(ev, k) }
    IN  /\ (fallbacks = { } /\ result.done > 0) => result.loads = 1
        /\ Cardinality(result.selected) <= 1

\* C32, supporting: with the device requested by name the property holds.
C32_HoldsForNamedDevice ==
    args.requested_device # "auto" => C32_DeviceSelectedOnce

\* C33: save_chunk_result replaces exactly the persisted chunk with the index
\* of the given chunk and leaves every other part of the persisted record as
\* it was (status, error, audio_path, chunks_dir, output_path, the other
\* chunks); when no record can be loaded it writes nothing.
C33_CheckpointFrame ==
    [][ /\ CheckpointWritten =>
              disk'.state = [ disk.state EXCEPT
                                !.chunks = ReplaceChunk(@, ChunkToDict(job.chunks[ci])) ]
        /\ (pc = "t_checkpoint" /\ pc' = "t_progress" /\ disk.kind # "ok") =>
              disk' = disk ]_vars

\* C33, supporting: chunks_dir apart, the frame holds.
C33_FrameButChunksDir ==
    [][ CheckpointWritten =>
            disk'.state = [ disk.state EXCEPT
                              !.chunks = ReplaceChunk(@, ChunkToDict(job.chunks[ci])),
                              !.chunks_dir = NoPath ] ]_vars

\* C34: after any sequence of start_stage, update_stage, complete_stage and
\* complete_chunk calls every stage has 0 <= completed <= total, and
\* complete_stage leaves the current stage with completed = total.
C34_CompletedWithinTotal ==
    /\ \A i \in 1..Len(StageNames) :
          LET st == result.t.stages[StageNames[i]]
          IN  0 <= st.completed /\ st.completed <= st.total
    /\ (result.last = "complete_stage" /\ result.t.current_stage # "None") =>
          LET st == result.t.stages[result.t.current_stage]
          IN  st.completed = st.total

\* C34, supporting: the second half alone holds.
C34_CompleteStageSetsTotal ==
    (result.last = "complete_stage" /\ result.t.current_stage # "None") =>
        LET st == result.t.stages[result.t.current_stage]
        IN  st.completed = st.total

\* C35: consolidate_segments coalesces each run of consecutive segments with
\* the same speaker and a gap of at most 1 s to the end of the segment being
\* built into one segment (first start, last end, texts joined in order); no
\* two adjacent output segments have the same speaker and a gap of at most
\* 1 s, and the output texts in order concatenate to the input texts.
C35_ConsolidatesRuns ==
    called =>
        LET inp == args.segments
            out == result
            n == Len(inp)
            \* j closes a run: the next segment does not continue it
            Closes(j) == j = n \/ ~(inp[j + 1].speaker = inp[j].speaker
                                      /\ inp[j + 1].start - inp[j].end <= 1)
            ends == { j \in 1..n : Closes(j) }
            RunStart(j) == IF \E i \in ends : i < j
                        THEN 1 + CHOOSE i \in ends : i < j /\ \A h \in ends : h < j => h <= i
                        ELSE 1
            RunNumber(j) == Cardinality({ i \in ends : i <= j })
        IN  /\ Len(out) = Cardinality(ends)
            /\ \A j \in ends :
                  LET o == out[RunNumber(j)]
                  IN  /\ o.start = inp[RunStart(j)].start
                      /\ o.end = inp[j].end
                      /\ o.speaker = inp[j].speaker
                      /\ o.text = SegTexts(SubSeq(inp, RunStart(j), j))
            /\ \A k \in 1..(Len(out) - 1) :
                  ~(out[k + 1].speaker = out[k].speaker /\ out[k + 1].start - out[k].end <= 1)
            /\ SegTexts(out) = SegTexts(inp)

\* three segments of one speaker: the first two are coalesced, the third is
\* more than 1 s after them and stays apart
C35_Witness ==
    /\ called /\ Len(args.segments) = 3 /\ Len(result) = 2
    /\ args.segments[1].speaker = args.segments[3].speaker
    /\ result[1].end = args.segments[2].end
    /\ result[1].text = << Words[1], Words[2] >>
    /\ result[2].start - result[1].end > 1

\* C36: in every persisted state, after any process() and resume() calls, a
\* job with status COMPLETED has output_path set, transcription_text set and
\* every chunk COMPLETED.
C36_CompletedIsComplete ==
    (disk.kind = "ok" /\ disk.state.status = "completed") =>
        /\ disk.state.output_path # NoPath
        /\ disk.state.transcription_text # None
        /\ \A i \in 1..Len(disk.state.chunks) : disk.state.chunks[i].status = "completed"

\* C36, supporting: what process() alone persists as COMPLETED has an output
\* path and a transcription text.
C36_ProcessSetsOutputAndText ==
    (disk.kind = "ok" /\ disk.state.status = "completed" /\ resumes = 0) =>
        /\ disk.state.output_path # NoPath
        /\ disk.state.transcription_text # None

\* C36, supporting: on an accelerator, process() alone can persist COMPLETED
\* with a chunk that is FAILED; on the cpu device it cannot.
C36_ProcessOnCpuAllChunksCompleted ==
    (disk.kind = "ok" /\ disk.state.status = "completed" /\ resumes = 0 /\ device = "cpu") =>
        \A i \in 1..Len(disk.state.chunks) : disk.state.chunks[i].status = "completed"

\* segment number k of chunk i lies inside the overlap window shared with
\* chunk i + 1 and chunk i + 1 returned it too, with the same times
SharedInOverlap(cs, i, k) ==
    LET x == cs[i].segments[k]
    IN  /\ cs[i + 1].start_time <= x.start /\ x.end <= cs[i].end_time
        /\ Count(cs[i].segments, x) = 1 /\ Count(cs[i + 1].segments, x) = 1

\* C37: a segment inside the overlap window of two adjacent chunks that both
\* chunks returned with the same times is kept by merge_chunks exactly once:
\* never dropped from both, never kept from both.
C37_OverlapSegmentKeptOnce ==
    called =>
        \A i \in 1..(Len(args.chunks) - 1) : \A k \in 1..Len(args.chunks[i].segments) :
            SharedInOverlap(args.chunks, i, k) =>
                Count(result.segments, args.chunks[i].segments[k]) = 1

\* C37, supporting: such a segment is never kept from both chunks.
C37_NeverKeptTwice ==
    called =>
        \A i \in 1..(Len(args.chunks) - 1) : \A k \in 1..Len(args.chunks[i].segments) :
            SharedInOverlap(args.chunks, i, k) =>
                Count(result.segments, args.chunks[i].segments[k]) <= 1

\* ---------------------------------------------------------------------
\* Several jobs sharing one temp directory. A file on disk is a triple:
\* << "audio", stem, 0 >> is temp/<stem>_audio.wav and
\* << "chunk", id, k >> is temp/<id>_chunks/chunk_<k>.wav. Runs are
\* sequential; a run ends by returning, by raising, or by the process
\* being killed, which leaves the persisted job as last saved.

Stems == 1..MaxStems

JobIds == 1..MaxJobs

AudioFile(stem) == << "audio", stem, 0 >>

ChunkFile(id, k) == << "chunk", id, k >>

ChunksDirFiles(id, on_disk) == { f \in on_disk : f[1] = "chunk" /\ f[2] = id }

\* chunk file paths after stage 2: the audio file itself for one chunk
JobChunks(id, stem, n) ==
    [ k \in 1..n |->
        [ file_path |-> IF n > 1 THEN ChunkFile(id, k) ELSE AudioFile(stem),
          status |-> "pending" ] ]

ChunkFilesWritten(id, stem, n) ==
    IF n > 1 THEN { ChunkFile(id, k) : k \in 1..n } ELSE { }

\* the next chunk the loop of transcribe_all_chunks does not skip, or 0
NextFrom(chunks, pos) ==
    IF \E k \in pos..Len(chunks) : chunks[k].status # "completed"
    THEN CHOOSE k \in pos..Len(chunks) :
            /\ chunks[k].status # "completed"
            /\ \A m \in pos..(k - 1) : chunks[m].status = "completed"
    ELSE 0

JobsInit ==
    /\ duration = 0 /\ device = "cpu" /\ useDiar = FALSE /\ PipelineStart
    /\ \E stems \in [ JobIds -> Stems ] : \E n \in [ JobIds -> 1..MaxJobChunks ] :
          args = [ stem |-> stems, total_chunks |-> n ]
    /\ result = [ jobs |-> [ id \in JobIds |-> [ status |-> "none", chunks |-> << >> ] ],
                  disk |-> { }, running |-> 0, pos |-> 1, kills |-> 0 ]
    /\ called = FALSE

\* process() of a new video up to the save in status TRANSCRIBING
J_Process(id) ==
    /\ result.running = 0
    /\ result.jobs[id].status = "none"
    /\ result' = [ result EXCEPT
          !.disk = @ \cup { AudioFile(args.stem[id]) }
                     \cup ChunkFilesWritten(id, args.stem[id], args.total_chunks[id]),
          !.jobs[id] = [ status |-> "transcribing",
                         chunks |-> JobChunks(id, args.stem[id], args.total_chunks[id]) ],
          !.running = id, !.pos = 1 ]
    /\ called' = TRUE
    /\ UNCHANGED << args, pipeline >>

\* one iteration of transcribe_all_chunks on a chunk whose file exists
J_TranscribeChunk(id) ==
    /\ result.running = id
    /\ result.jobs[id].status = "transcribing"
    /\ LET k == NextFrom(result.jobs[id].chunks, result.pos)
       IN  /\ k # 0
           /\ result.jobs[id].chunks[k].file_path \in result.disk
           /\ \E st \in { "completed", "failed" } :
                 result' = [ result EXCEPT !.jobs[id].chunks[k].status = st,
                                           !.pos = k + 1 ]
    /\ UNCHANGED << args, called, pipeline >>

\* transcribe_chunk raises on a missing file; the run saves FAILED
J_ChunkFileMissing(id) ==
    /\ result.running = id
    /\ result.jobs[id].status = "transcribing"
    /\ LET k == NextFrom(result.jobs[id].chunks, result.pos)
       IN  /\ k # 0
           /\ result.jobs[id].chunks[k].file_path \notin result.disk
    /\ result' = [ result EXCEPT !.jobs[id].status = "failed", !.running = 0 ]
    /\ UNCHANGED << args, called, pipeline >>

\* merge, generate, save COMPLETED, then _cleanup
J_Finish(id) ==
    /\ result.running = id
    /\ result.jobs[id].status = "transcribing"
    /\ NextFrom(result.jobs[id].chunks, result.pos) = 0
    /\ result' = [ result EXCEPT
          !.jobs[id].status = "completed",
          !.disk = (@ \ { AudioFile(args.stem[id]) }) \ ChunksDirFiles(id, @),
          !.running = 0 ]
    /\ UNCHANGED << args, called, pipeline >>

\* the process dies; nothing is saved and nothing is deleted
J_Kill(id) ==
    /\ result.running = id
    /\ result.kills < MaxKills
    /\ result' = [ result EXCEPT !.running = 0, !.kills = @ + 1 ]
    /\ UNCHANGED << args, called, pipeline >>

\* resume() of an incomplete job
J_Resume(id) ==
    /\ result.running = 0
    /\ result.jobs[id].status \in ResumableStatuses
    /\ result' = [ result EXCEPT !.running = id, !.pos = 1 ]
    /\ UNCHANGED << args, called, pipeline >>

SpecJobs ==
    JobsInit /\ [][\E id \in JobIds : \/ J_Process(id) \/ J_TranscribeChunk(id)
                                      \/ J_ChunkFileMissing(id) \/ J_Finish(id)
                                      \/ J_Kill(id) \/ J_Resume(id)]_vars

\* C38: while a persisted job is in a resumable status and has a chunk that
\* is not COMPLETED, that chunk's audio file exists on disk; cleaning up
\* one job never removes a file another resumable job still needs.
C38_NeededChunkFilesExist ==
    \A id \in JobIds :
        result.jobs[id].status \in ResumableStatuses =>
            \A k \in 1..Len(result.jobs[id].chunks) :
                result.jobs[id].chunks[k].status # "completed" =>
                    result.jobs[id].chunks[k].file_path \in result.disk

\* C38, the part that holds: jobs of videos with different stems, and jobs
\* of more than one chunk, keep every chunk file they still need.
C38_HoldsForDistinctStemsOrSplitAudio ==
    \A id \in JobIds :
        (\/ \A other \in JobIds \ { id } : args.stem[other] # args.stem[id]
         \/ args.total_chunks[id] > 1) =>
            (result.jobs[id].status \in ResumableStatuses =>
                \A k \in 1..Len(result.jobs[id].chunks) :
                    result.jobs[id].chunks[k].status # "completed" =>
                        result.jobs[id].chunks[k].file_path \in result.disk)

\* ---------------------------------------------------------------------
\* The tracker calls of one orchestrator run.  A stage's progress is kept
\* in units of 1 / ProgressUnit and overall progress in units of
\* 1 / (TotalWeight * ProgressUnit), both exact for up to six chunks.

ProgressUnit == 6 * 100

\* StageProgress.progress
StageFraction(sp) ==
    IF sp.total <= 0 THEN 0
    ELSE Min(ProgressUnit, (sp.completed * ProgressUnit) \div sp.total)

RECURSIVE WeightedSum(_, _)
WeightedSum(t, i) ==
    IF i = 0 THEN 0
    ELSE WeightedSum(t, i - 1) +
         (IF t.stages[StageNames[i]].started
          THEN StageFraction(t.stages[StageNames[i]]) * STAGE_WEIGHTS[StageNames[i]]
          ELSE IF StageNames[i] \in t.completed_stages
               THEN ProgressUnit * STAGE_WEIGHTS[StageNames[i]]
               ELSE 0)

RECURSIVE TotalWeightUpTo(_)
TotalWeightUpTo(i) ==
    IF i = 0 THEN 0 ELSE TotalWeightUpTo(i - 1) + STAGE_WEIGHTS[StageNames[i]]

TotalWeight == TotalWeightUpTo(Len(StageNames))

\* overall_progress as the numerator over TotalWeight * ProgressUnit
overall_progress(t) == WeightedSum(t, Len(StageNames))

FullProgress == TotalWeight * ProgressUnit

\* update_stage(completed = num / den), a value that need not be whole
update_stage_ratio(t, num, den) ==
    IF t.current_stage = "None" THEN t
    ELSE [ t EXCEPT !.stages[t.current_stage].completed = (num * Den) \div den ]

\* the stages a run starts: all six in process(), the rest in resume()
RunStages(entry, status) ==
    IF entry = "process" THEN StageNames
    ELSE CASE status = "transcribing" -> << "transcribe", "merge", "generate" >>
           [] status = "merging" -> << "merge", "generate" >>
           [] status = "generating" -> << "generate" >>
           [] OTHER -> << >>

\* the progress callbacks a stage makes before complete_stage
WorkSteps(entry, stage, n) ==
    CASE stage = "extract" -> 2
      [] stage = "chunk" -> IF n > 1 THEN n ELSE 0
      [] stage = "transcribe" -> n
      [] OTHER -> 0

StageTotal(stage, n) == IF stage = "transcribe" THEN n ELSE 100

ProgressInit ==
    /\ duration = 0 /\ device = "cpu" /\ useDiar = FALSE /\ PipelineStart
    /\ \E entry \in { "process", "resume" } : \E status \in ResumableStatuses :
          \E n \in 1..MaxProgressChunks :
              /\ entry = "process" => status = "extracting"
              /\ args = [ mode |-> entry, status |-> status, total_chunks |-> n ]
    /\ result = [ t |-> NewTracker, idx |-> 1, phase |-> "start", k |-> 0,
                  output_path |-> NoPath, returned |-> FALSE ]
    /\ called = FALSE

CurrentRunStage == RunStages(args.mode, args.status)[result.idx]

O_StartStage ==
    /\ result.phase = "start"
    /\ result.idx <= Len(RunStages(args.mode, args.status))
    /\ LET stage == CurrentRunStage
           total == StageTotal(stage, args.total_chunks)
           t2 == IF args.mode = "resume" /\ stage = "transcribe"
                 THEN start_stage(set_chunks(result.t, args.total_chunks), stage, total)
                 ELSE IF stage = "chunk"
                      THEN set_chunks(start_stage(result.t, stage, total), args.total_chunks)
                      ELSE start_stage(result.t, stage, total)
       IN  result' = [ result EXCEPT !.t = t2, !.phase = "work", !.k = 0 ]
    /\ called' = TRUE
    /\ UNCHANGED << args, pipeline >>

\* one progress callback of the current stage
O_Work ==
    /\ result.phase = "work"
    /\ result.k < WorkSteps(args.mode, CurrentRunStage, args.total_chunks)
    /\ LET stage == CurrentRunStage
           c == result.k + 1
       IN  \E p \in { 0, 25, 50, 75, 100 } :
             /\ stage = "extract" => /\ p * Den >= result.t.stages["extract"].completed
                                     /\ c = 2 => p = 100
             /\ stage # "extract" => p = 0
             /\ result' = [ result EXCEPT
                   !.k = c,
                   !.t = CASE stage = "extract" -> update_stage(@, 0, Some(p))
                           [] stage = "chunk" ->
                                update_stage_ratio(@, c * 100, args.total_chunks)
                           [] OTHER ->
                                IF args.mode = "process"
                                THEN complete_chunk(update_stage(@, 0, Some(c)), c - 1)
                                ELSE update_stage(@, 0, Some(c)) ]
    /\ UNCHANGED << args, called, pipeline >>

O_CompleteStage ==
    /\ result.phase = "work"
    /\ result.k = WorkSteps(args.mode, CurrentRunStage, args.total_chunks)
    /\ result' = [ result EXCEPT
          !.t = complete_stage(@), !.phase = "start", !.idx = @ + 1, !.k = 0,
          !.output_path = IF CurrentRunStage = "generate" THEN "output.docx" ELSE @ ]
    /\ UNCHANGED << args, called, pipeline >>

\* return job.output_path
O_Return ==
    /\ result.phase = "start"
    /\ result.idx > Len(RunStages(args.mode, args.status))
    /\ ~result.returned
    /\ result' = [ result EXCEPT !.returned = TRUE ]
    /\ called' = TRUE
    /\ UNCHANGED << args, pipeline >>

SpecProgress ==
    ProgressInit /\ [][O_StartStage \/ O_Work \/ O_CompleteStage \/ O_Return]_vars

\* C39: whenever a run returns an output path, through process() or through
\* resume(), the tracker's weighted overall progress is 1.0 at that point.
C39_ReturnsAtFullProgress ==
    (result.returned /\ result.output_path # NoPath) =>
        overall_progress(result.t) = FullProgress

\* C39, the parts that hold: a process() run returns at overall progress
\* 1.0, and overall progress never decreases during any run.
C39_ProcessReturnsAtFullProgress ==
    (args.mode = "process" /\ result.returned) =>
        /\ result.output_path # NoPath
        /\ overall_progress(result.t) = FullProgress

C39_NeverDecreases ==
    [][overall_progress(result'.t) >= overall_progress(result.t)]_vars

\* ---------------------------------------------------------------------
\* The loop of calculate_chunks one iteration at a time, for the chunk
\* durations BOUT_CHUNK_DURATION can set, with the default overlap and
\* minimum chunk.  LoopCap is more iterations than any terminating plan of
\* these durations takes.

EnvChunkDurations == { -5, 0, 5, OverlapSeconds, OverlapSeconds + 1, 15, 20, 40, ChunkDuration }

LoopDurations == { k * LoopDurationStep : k \in 0..MaxLoopDurationSteps }

LoopCap == MaxLoopDurationSteps * LoopDurationStep + 2

LoopInit ==
    /\ duration = 0 /\ device = "cpu" /\ useDiar = FALSE /\ PipelineStart
    /\ \E cd \in EnvChunkDurations : \E d \in LoopDurations :
          args = [ duration |-> d, cd |-> cd, ov |-> OverlapSeconds, mc |-> MinChunkSeconds ]
    /\ result = [ pc |-> "entry", chunks |-> << >>, start_time |-> 0, index |-> 0 ]
    /\ called = FALSE

\* the two early returns, or entry into the loop
L_Enter ==
    /\ result.pc = "entry"
    /\ result' =
          IF args.duration <= 0 THEN [ result EXCEPT !.pc = "done" ]
          ELSE IF args.duration <= args.cd
               THEN [ result EXCEPT !.pc = "done",
                                    !.chunks = << NewChunk(0, 0, args.duration, 0) >> ]
               ELSE [ result EXCEPT !.pc = "loop" ]
    /\ called' = TRUE
    /\ UNCHANGED << args, pipeline >>

\* one iteration that appends a chunk
L_Iterate ==
    /\ result.pc = "loop"
    /\ result.start_time < args.duration
    /\ ~(args.duration - result.start_time < args.mc /\ result.index > 0)
    /\ result.index < LoopCap
    /\ result' = [ result EXCEPT
          !.chunks = Append(@, NewChunk(result.index, result.start_time,
                                        Min(result.start_time + args.cd, args.duration),
                                        IF result.index > 0 THEN args.ov ELSE 0)),
          !.start_time = @ + (args.cd - args.ov),
          !.index = @ + 1 ]
    /\ UNCHANGED << args, called, pipeline >>

\* the iteration that extends the previous chunk and breaks
L_Absorb ==
    /\ result.pc = "loop"
    /\ result.start_time < args.duration
    /\ args.duration - result.start_time < args.mc /\ result.index > 0
    /\ result' = [ result EXCEPT !.chunks[Len(result.chunks)].end_time = args.duration,
                                 !.pc = "done" ]
    /\ UNCHANGED << args, called, pipeline >>

\* the loop condition fails
L_Exit ==
    /\ result.pc = "loop"
    /\ ~(result.start_time < args.duration)
    /\ result' = [ result EXCEPT !.pc = "done" ]
    /\ UNCHANGED << args, called, pipeline >>

LoopNext == L_Enter \/ L_Iterate \/ L_Absorb \/ L_Exit

SpecPlanLoop == LoopInit /\ [][LoopNext]_vars /\ WF_vars(LoopNext)

\* C40: calculate_chunks terminates for every duration and every integer
\* BOUT_CHUNK_DURATION with the default overlap: start_time strictly
\* increases on every loop iteration.
C40_StartTimeIncreases ==
    [][(result.pc = "loop" /\ result'.index = result.index + 1) =>
          result'.start_time > result.start_time]_vars

\* C40: the number of chunks is bounded by the duration.
C40_ChunkCountBounded == Len(result.chunks) <= args.duration

\* C40, the part that holds: with a chunk duration above the overlap the
\* loop advances by the step, stays within the duration and ends.
C40_HoldsAboveOverlap ==
    args.cd > args.ov =>
        /\ result.start_time = result.index * (args.cd - args.ov)
        /\ Len(result.chunks) <= args.duration
        /\ result.index < LoopCap

C40_TerminatesAboveOverlap == (args.cd > args.ov) => <>(result.pc = "done")

====
